---- MODULE Spec2Model ----
(***************************************************************************)
(* State-machine model of the dynlite-experiments harness:                 *)
(*   - the mixed-workload driver  (experiments/perf_ycsb.py)               *)
(*   - the chaos probe            (experiments/chaos.py)                   *)
(*   - the SLO probe              (experiments/sac.py)                     *)
(*   - the staleness probe        (experiments/staleness.py)               *)
(*   - the convergence probe      (experiments/anti_entropy.py)            *)
(*   - the perf plot aggregation  (plots/all_plots.py)                     *)
(*                                                                         *)
(* Time is a discrete clock `now` counted in ticks; one millisecond is     *)
(* TicksPerMs ticks, so that int(t * 1000) really truncates.  A latency   *)
(* (a float number of milliseconds in the code) is kept as a number of     *)
(* ticks, i.e. in units of 1/TicksPerMs ms.  The remote store is external: *)
(* every request returns or raises nondeterministically.                   *)
(***************************************************************************)
EXTENDS Integers, Sequences, FiniteSets, Bags, TLC

(* ------------------------------ bounds --------------------------------- *)
MaxTime == 3       \* the clock stops advancing at this tick
MaxReq == 2        \* requests one probe invocation may issue
MaxKeys == 1       \* largest configured key universe (0 = empty universe)
TicksPerMs == 2    \* clock resolution, ticks per millisecond
MaxLen == 5        \* longest record list handed to the aggregator in SpecAgg
MaxSetBacks == 1   \* times the wall clock is set back in SpecWallClock
RngModulus == 32   \* number of states of the generator of random

(* --------------------------- configuration ----------------------------- *)
\* the node names of config.py DEFAULT_CLUSTER
DEFAULT_CLUSTER == <<"node-a", "node-b", "node-c">>
\* WorkloadConfig.concurrency_levels, cut to small pools
concurrency_levels == <<2>>
\* The timed loops, scaled to a few ticks: WorkloadConfig.run_seconds, duration_sec
\* of chaos.py and sac.py, AntiEntropyConfig.observation_seconds
run_seconds == 1
chaos_duration_sec == 1
sac_duration_sec == 1
observation_seconds == 2
\* AntiEntropyConfig.sample_interval_seconds and write_burst_keys, scaled
sample_interval_seconds == 1
write_burst_keys == 2
\* StalenessConfig.delays_ms (in ticks) and trials_per_delay, scaled
delays_ms == <<0, 1>>
trials_per_delay == 2
\* SloConfig
tight_deadline_ms == 20
relaxed_deadline_ms == 100
\* workloads of run_perf_ycsb with their read probability in percent
workloads == << [name |-> "A", p_read |-> 50],
                [name |-> "B", p_read |-> 95],
                [name |-> "C", p_read |-> 100] >>
\* WorkloadConfig.value_size_bytes, scaled
value_size_bytes == 1

(* -------------------------- the random module -------------------------- *)
\* random.seed, random.random and random.choice act on one generator of the
\* random module that every thread of the process shares.  It is modelled as
\* a linear congruential generator over 0..RngModulus-1: seeding sets its
\* state, each draw returns a value computed from the state and steps it.
\* seeds the generator is given (secrets.token_bytes(16), the OS entropy that
\* seeds it when the module is imported)
RngSeeds == {RngModulus \div 2, RngModulus - 1}
\* the state after one draw
RngStep(s) == (5 * s + 3) % RngModulus
\* the state after n draws
RECURSIVE RngAdvance(_, _)
RngAdvance(s, n) == IF n = 0 THEN s ELSE RngAdvance(RngStep(s), n - 1)
\* random.random() drawn in state s, in percent of [0,1)
RandomPct(s) == (s * 100) \div RngModulus
\* random.choice(lst) drawn in state s
RandomChoice(lst, s) == lst[((s * Len(lst)) \div RngModulus) + 1]

Max2(a, b) == IF a >= b THEN a ELSE b
Min2(a, b) == IF a <= b THEN a ELSE b
RECURSIVE SeqMax(_)
SeqMax(s) == IF Len(s) = 1 THEN s[1] ELSE Max2(s[1], SeqMax(Tail(s)))
RECURSIVE SeqMin(_)
SeqMin(s) == IF Len(s) = 1 THEN s[1] ELSE Min2(s[1], SeqMin(Tail(s)))
MaxConc == SeqMax(concurrency_levels)
Workers == 1..MaxConc

VARIABLES
  exp,          \* the experiment selector of this invocation
  pc,           \* control point of the main thread
  now,          \* time.time(), in ticks
  clock_steps,  \* times the system clock was set back so far
  num_keys,     \* size of the key universe (WorkloadConfig.num_keys)
  nodes,        \* names of CONFIG.cluster.nodes, the keys of the clients dict
  wl_idx,       \* run_perf_ycsb: index into workloads
  conc_idx,     \* run_perf_ycsb: index into concurrency_levels
  stop_at,      \* deadline of the running loop, in ticks
  records,      \* the probe's collected records
  run_records,  \* _run_single_workload: the list shared by the workers
  wk,           \* per worker: control point and locals of worker_thread
  cur,          \* locals of the main thread's request loop
  loop_i,       \* index of the main thread's setup loop (warmup, burst)
  txt,          \* lines written to the probe's text summary
  csv,          \* the probe's CSV table: [exists, rows]
  plot,         \* output of _plot_perf: [done, data_tp, data_lat]
  issued,       \* history: number of requests issued by this invocation
  built,        \* history: bag of the records built by the request loops
  failed,       \* history: number of loop requests that failed
  undecoded,    \* history: number of reads whose value did not decode
  rng,          \* state of the module-level generator of random
  clients,      \* main: the dict of node clients, "open" or "closed" per node
  calls,        \* main: the probes called so far, each with its result
  main_pc,      \* main: in the try block, in the finally block, or exited
  close_i       \* main: clients the loop of the finally block has visited

cfgVars == <<exp, num_keys, nodes>>
perfVars == <<wl_idx, conc_idx, run_records, wk>>
fileVars == <<txt, csv, plot>>
histVars == <<issued, built, failed, undecoded>>
mainVars == <<clients, calls, main_pc, close_i>>
vars == <<exp, num_keys, nodes, pc, now, clock_steps, stop_at, records, cur, loop_i,
          wl_idx, conc_idx, run_records, wk, txt, csv, plot, issued, built,
          failed, undecoded, rng, clients, calls, main_pc, close_i>>

(* ------------------------- Python list helpers ------------------------- *)
\* a lossy append: the new element replaces the last one
ListAppendOverwritesLast(lst, x) ==
  IF lst = <<>> THEN <<x>> ELSE [lst EXCEPT ![Len(lst)] = x]
\* list.append(x): one atomic operation of the interpreter
ListAppend(lst, x) == Append(lst, x)

\* lst[i] with Python's index rule: 0-based, a negative index counts from the end
ListIndex(lst, i) == IF i >= 0 THEN lst[i + 1] ELSE lst[Len(lst) + i + 1]

\* sorted(lst), ascending
Sorted(lst) == SortSeq(lst, LAMBDA a, b : a < b)

\* int(f * n) and math.floor(f * n) for the fraction f = pct / 100
FloorFrac(pct, n) == (pct * n) \div 100

\* [F(e) for e in lst]
MapList(lst, F(_)) == [i \in 1..Len(lst) |-> F(lst[i])]

BagOfSeq(lst) ==
  LET vals == {lst[i] : i \in 1..Len(lst)}
  IN  [v \in vals |-> Cardinality({i \in 1..Len(lst) : lst[i] = v})]

(* ------------------------- number formatting --------------------------- *)
\* str(n) for n >= 0: the decimal digits, most significant first
RECURSIVE Str(_)
Str(n) == IF n < 10 THEN <<n>> ELSE Append(Str(n \div 10), n % 10)
\* int(s) of a digit string
RECURSIVE ParseInt(_)
ParseInt(s) ==
  IF Len(s) = 1 THEN s[1]
  ELSE 10 * ParseInt(SubSeq(s, 1, Len(s) - 1)) + s[Len(s)]
\* str(x) of a float latency: whole milliseconds, then the sub-millisecond ticks
StrFloat(x) == [whole |-> Str(x \div TicksPerMs), part |-> Str(x % TicksPerMs)]
\* float(s)
ParseFloat(s) == ParseInt(s.whole) * TicksPerMs + ParseInt(s.part)

\* int(t * 1000): the tick count truncated to whole milliseconds
ToMs(t) == t \div TicksPerMs
\* a latency with the two readings swapped
LatencyMsSwapped(t_start, t_end) == t_start - t_end
\* (t_end - t_start) * 1000.0
LatencyMs(t_start, t_end) == t_end - t_start

(* ----------------------- perf_ycsb.py helpers -------------------------- *)
\* a choice that also reads when x = p_read
choose_op_inclusive(p_read, x) == IF x <= p_read THEN "GET" ELSE "PUT"
\* _choose_op(mix) for the drawn x
choose_op(p_read, x) == IF x < p_read THEN "GET" ELSE "PUT"

\* keys = [f"perf-{i}" for i in range(wl.num_keys)]
keys == [i \in 1..num_keys |-> i - 1]

(* ----------------------------- client.py ------------------------------- *)
\* what the remote store can answer to one request: a status, a transport
\* failure, or (for a read) a 200 whose valueBase64 does not decode
GetOutcomes == {"200", "404", "http_error", "transport_error", "decode_error"}
PutOutcomes == {"200", "http_error", "transport_error"}
Outcomes(op) == IF op = "GET" THEN GetOutcomes ELSE PutOutcomes
\* DynLiteHttpClient.get / put / fetch_merkle_snapshot raise on this outcome:
\* a transport error, raise_for_status() on an error status, the RuntimeError
\* of a failed base64 decode; a 404 read is returned as found=False
Raises(outcome) == outcome \in {"http_error", "transport_error", "decode_error"}

\* the idle locals of a worker or of the main request loop
NoReq == [op |-> "-", node |-> "-", t_start |-> 0]
\* own is the state a generator private to the worker would be in: seeded with
\* the worker's seed and stepped by the worker's draws only
\* run holds the arguments workload_name and concurrency the closure
\* worker_thread was created with, as indexes of the run (<<0, 0>>: none)
IdleWorker == [pc |-> "idle", req |-> NoReq, own |-> 0, run |-> <<0, 0>>]

NoFile == [exists |-> FALSE, rows |-> <<>>]
NoPlot == [done |-> FALSE, data_tp |-> {}, data_lat |-> {}]

(* ----------------------- the Percentile Aggregator --------------------- *)
\* a latency list that forgets the ok filter
AllLatencies(recs) == MapList(recs, LAMBDA r : r.latency_ms)
\* latencies = [r["latency_ms"] for r in run_records if r["ok"]]
SuccessLatencies(recs) ==
  MapList(SelectSeq(recs, LAMBDA r : r.ok = 1), LAMBDA r : r.latency_ms)

\* p50 / p95 / p99 of the text summaries (perf_ycsb.py 106-108, sac.py 111-113)
SummaryP50(sorted) == ListIndex(sorted, FloorFrac(50, Len(sorted)))
SummaryP95(sorted) == ListIndex(sorted, FloorFrac(95, Len(sorted)) - 1)
SummaryP99(sorted) == ListIndex(sorted, FloorFrac(99, Len(sorted)) - 1)

\* pct(p) of _plot_perf: idx = max(0, min(n - 1, floor(p * n) - 1))
PlotPct(sorted, pct) ==
  LET n == Len(sorted)
      idx == Max2(0, Min2(n - 1, FloorFrac(pct, n) - 1))
  IN  ListIndex(sorted, idx)

\* the summary of one run (perf_ycsb.py 94-113); throughput is kept exact as
\* ops / span_us microseconds, duration_s = max(duration_ms / 1000.0, 1e-6)
RunSummary(wl, conc, recs) ==
  LET latencies == SuccessLatencies(recs)
      duration_ms == SeqMax(MapList(recs, LAMBDA r : r.t_end_ms))
                     - SeqMin(MapList(recs, LAMBDA r : r.t_start_ms))
      latencies_sorted == Sorted(latencies)
  IN  IF latencies = <<>>
      THEN [kind |-> "nodata", workload |-> wl, concurrency |-> conc]
      ELSE [kind |-> "stats", workload |-> wl, concurrency |-> conc,
            latencies |-> latencies,
            ops |-> Len(recs),
            span_us |-> Max2(duration_ms * 1000, 1),
            p50 |-> SummaryP50(latencies_sorted),
            p95 |-> SummaryP95(latencies_sorted),
            p99 |-> SummaryP99(latencies_sorted)]

(* ------------------------------- CSV ----------------------------------- *)
\* csv.DictWriter.writerow(rec) of a workload record
PerfRow(r) ==
  [workload |-> r.workload, concurrency |-> Str(r.concurrency), node |-> r.node,
   op |-> r.op, ok |-> Str(r.ok), latency_ms |-> StrFloat(r.latency_ms),
   t_start_ms |-> Str(r.t_start_ms), t_end_ms |-> Str(r.t_end_ms)]

(* ------------------------- plots/all_plots.py -------------------------- *)
\* rows kept by _plot_perf: r["ok"] == "1"
PlotKeeps(row) == row.ok = <<1>>
\* the latencies grouped under (workload, conc)
PlotGroup(rows, k) ==
  MapList(SelectSeq(rows, LAMBDA r : PlotKeeps(r) /\ r.workload = k[1]
                                     /\ ParseInt(r.concurrency) = k[2]),
          LAMBDA r : ParseFloat(r.latency_ms))
PlotKeys(rows) ==
  {<<rows[i].workload, ParseInt(rows[i].concurrency)>> :
      i \in {j \in 1..Len(rows) : PlotKeeps(rows[j])}}
\* data_tp: throughput = len(lats) / run_seconds, kept as its numerator
PlotThroughput(rows) ==
  {[workload |-> k[1], concurrency |-> k[2], ops |-> Len(PlotGroup(rows, k))] :
      k \in PlotKeys(rows)}
\* data_lat: the three percentiles per (workload, conc)
PlotLatency(rows) ==
  {[workload |-> k[1], concurrency |-> k[2],
    lats |-> PlotGroup(rows, k),
    p50 |-> PlotPct(Sorted(PlotGroup(rows, k)), 50),
    p95 |-> PlotPct(Sorted(PlotGroup(rows, k)), 95),
    p99 |-> PlotPct(Sorted(PlotGroup(rows, k)), 99)] : k \in PlotKeys(rows)}

(* ------------------------------- Init ---------------------------------- *)
Experiments == {"perf", "chaos", "sac", "staleness", "anti-entropy"}

\* the clusters explored for an experiment: prefixes of DEFAULT_CLUSTER
ClusterChoices(e) ==
  IF e = "anti-entropy" THEN {SubSeq(DEFAULT_CLUSTER, 1, 2), DEFAULT_CLUSTER}
  ELSE IF e = "staleness" THEN {SubSeq(DEFAULT_CLUSTER, 1, 2)}
  ELSE {SubSeq(DEFAULT_CLUSTER, 1, 1)}

InitCommon ==
  /\ now = 0 /\ clock_steps = 0
  /\ rng \in RngSeeds
  /\ wl_idx = 1 /\ conc_idx = 1
  /\ stop_at = 0
  /\ records = <<>> /\ run_records = <<>>
  /\ wk = [w \in Workers |-> IdleWorker]
  /\ cur = NoReq /\ loop_i = 0
  /\ txt = NoFile /\ csv = NoFile /\ plot = NoPlot
  /\ issued = 0 /\ built = EmptyBag /\ failed = 0 /\ undecoded = 0

\* the selectors main dispatches on (runner.py 97-121), after lower()
KnownSelectors ==
  {"sanity", "sanity-smoke", "functional", "perf", "perf-ycsb", "sac", "chaos",
   "staleness", "anti-entropy", "anti_entropy", "plot", "all"}
\* the selectors explored: the five probes and a value main does not know
Selectors == Experiments \cup {"no-such-experiment"}

\* build_cluster_clients (client.py 127-131): one client per configured node
AllOpen == [n \in {nodes[i] : i \in 1..Len(nodes)} |-> "open"]
\* main is in its try block and has called nothing yet (runner.py 93-96)
MainAtDispatch ==
  clients = AllOpen /\ calls = <<>> /\ main_pc = "try" /\ close_i = 0
\* main is in its try block, inside its call of probe p
MainInProbe(p) ==
  /\ clients = AllOpen /\ main_pc = "try" /\ close_i = 0
  /\ calls = <<[probe |-> p, result |-> "running"]>>

\* main has parsed the selector and built one client per configured node; the
\* cluster may be configured without any node
Init ==
  /\ exp \in Selectors
  /\ pc = "start"
  /\ num_keys \in (IF exp = "perf" THEN {0, MaxKeys} ELSE {MaxKeys})
  /\ nodes \in ClusterChoices(exp) \cup {<<>>}
  /\ InitCommon
  /\ IF exp \in KnownSelectors THEN MainInProbe(exp) ELSE MainAtDispatch

\* cfg.cluster.primary (the cluster is not empty in the explored configurations)
primary == nodes[1]

\* the wall clock advances while a probe is running
Running == pc \notin {"returned", "raised", "usage_error"}
Tick ==
  /\ Running /\ now < MaxTime
  /\ now' = now + 1
  /\ UNCHANGED <<cfgVars, mainVars, clock_steps, rng, pc, stop_at, records, cur, loop_i, perfVars,
                 fileVars, histVars>>

\* time.time() is the system's wall clock: an adjustment of the clock (NTP
\* step, manual change) makes a later call return a lower value
ClockSetBack ==
  /\ Running /\ clock_steps < MaxSetBacks
  /\ \E t \in 0..(now - 1) : now' = t
  /\ clock_steps' = clock_steps + 1
  /\ UNCHANGED <<cfgVars, mainVars, rng, pc, stop_at, records, cur, loop_i, perfVars,
                 fileVars, histVars>>

\* an unknown selector that ends main without an error
MainUnknownExitsZero ==
  /\ exp \notin KnownSelectors /\ pc = "start"
  /\ pc' = "returned"
  /\ UNCHANGED <<cfgVars, mainVars, clock_steps, rng, now, stop_at, records, cur, loop_i,
                 perfVars, fileVars, histVars>>
\* runner.py 141-143: an unknown selector prints "Unknown experiment" on
\* stderr and leaves main with sys.exit(1)
MainUnknown ==
  /\ exp \notin KnownSelectors /\ pc = "start"
  /\ pc' = "usage_error"
  /\ UNCHANGED <<cfgVars, mainVars, clock_steps, rng, now, stop_at, records, cur, loop_i,
                 perfVars, fileVars, histVars>>

\* cfg.cluster.primary (config.py 31-35) raises RuntimeError for a cluster
\* without nodes; run_perf_ycsb (line 47), run_sac (41), run_staleness (34) and
\* run_anti_entropy (33) read it before they open a file or issue a request
PrimaryOfEmptyCluster ==
  /\ exp \in {"perf", "sac", "staleness", "anti-entropy"} /\ pc = "start"
  /\ nodes = <<>>
  /\ pc' = "raised"
  /\ UNCHANGED <<cfgVars, mainVars, clock_steps, rng, now, stop_at, records, cur, loop_i,
                 perfVars, fileVars, histVars>>

WriteLine(file, line) == [exists |-> TRUE, rows |-> Append(file.rows, line)]

(* ------------------- perf_ycsb.py: run_perf_ycsb ----------------------- *)
WarmupMax == 1000

\* lines 61-66: open the text summary, write the header
PerfOpen ==
  /\ exp = "perf" /\ pc = "start" /\ nodes # <<>>
  /\ txt' = WriteLine(txt, [kind |-> "header"])
  /\ loop_i' = 0
  /\ pc' = "warmup"
  /\ UNCHANGED <<cfgVars, mainVars, clock_steps, rng, now, stop_at, records, cur, perfVars, csv, plot,
                 histVars>>

\* lines 69-72: one warmup put; an error of the put leaves run_perf_ycsb
PerfWarmupPut ==
  /\ exp = "perf" /\ pc = "warmup" /\ loop_i < Min2(WarmupMax, num_keys)
  /\ \E outcome \in PutOutcomes :
       IF Raises(outcome) THEN pc' = "raised" /\ loop_i' = loop_i
       ELSE pc' = pc /\ loop_i' = loop_i + 1
  /\ UNCHANGED <<cfgVars, mainVars, clock_steps, rng, now, stop_at, records, cur, perfVars, fileVars,
                 histVars>>

\* line 73: the warmup loop is over
PerfWarmupDone ==
  /\ exp = "perf" /\ pc = "warmup" /\ loop_i >= Min2(WarmupMax, num_keys)
  /\ txt' = WriteLine(txt, [kind |-> "warmup_done"])
  /\ pc' = "run"
  /\ UNCHANGED <<cfgVars, mainVars, clock_steps, rng, now, stop_at, records, cur, loop_i, perfVars, csv,
                 plot, histVars>>

workload_name == workloads[wl_idx].name
mix == workloads[wl_idx].p_read
concurrency == concurrency_levels[conc_idx]

(* ----------------- perf_ycsb.py: _run_single_workload ------------------ *)
\* lines 150-153 and 189-190: set the deadline, submit the workers
RunStart ==
  /\ exp = "perf" /\ pc = "run"
  /\ txt' = WriteLine(txt, [kind |-> "running", workload |-> workload_name,
                            concurrency |-> concurrency])
  /\ stop_at' = now + run_seconds
  /\ run_records' = <<>>
  /\ wk' = [w \in Workers |->
              IF w <= concurrency
              THEN [IdleWorker EXCEPT !.pc = "seed", !.run = <<wl_idx, conc_idx>>]
              ELSE IdleWorker]
  /\ pc' = "join"
  /\ UNCHANGED <<cfgVars, mainVars, clock_steps, rng, now, records, cur, loop_i, wl_idx, conc_idx, csv,
                 plot, histVars>>

\* the loop condition of the request loops: while time.time() < stop_at
\* a loop condition that ignores the deadline
DeadlineOpenAlways(t) == TRUE
DeadlineOpen(t) == t < stop_at

\* line 157: random.seed(secrets.token_bytes(16)) seeds the shared generator
WSeed(w) ==
  /\ pc = "join" /\ wk[w].pc = "seed"
  /\ \E seed \in RngSeeds :
       /\ rng' = seed
       /\ wk' = [wk EXCEPT ![w].pc = "check", ![w].own = seed]
  /\ UNCHANGED <<cfgVars, mainVars, clock_steps, pc, now, stop_at, records, cur, loop_i, wl_idx,
                 conc_idx, run_records, fileVars, histVars>>

\* line 159: the worker polls the deadline
WCheck(w) ==
  /\ pc = "join" /\ wk[w].pc = "check"
  /\ IF DeadlineOpen(now)
     THEN /\ issued < MaxReq
          /\ wk' = [wk EXCEPT ![w].pc = "draw"]
     ELSE /\ wk' = [wk EXCEPT ![w] = [IdleWorker EXCEPT !.pc = "done"]]
  /\ UNCHANGED <<cfgVars, mainVars, clock_steps, rng, pc, now, stop_at, records, cur, loop_i, wl_idx,
                 conc_idx, run_records, fileVars, histVars>>

\* draws of one iteration: op, key and node, and the value_size_bytes
\* characters of _rand_value for a write
DrawsOf(op) == 3 + (IF op = "PUT" THEN value_size_bytes ELSE 0)

\* lines 160-165 and 171: draw op, key and node from the shared generator (and
\* the payload of a write), then read the start time; random.choice of an
\* empty list raises IndexError, which ends the worker
WDraw(w) ==
  /\ pc = "join" /\ wk[w].pc = "draw"
  /\ LET op == choose_op(mix, RandomPct(rng))
     IN  \/ /\ keys = <<>>
            /\ rng' = RngStep(rng)
            /\ wk' = [wk EXCEPT ![w] = [IdleWorker EXCEPT !.pc = "raised"]]
            /\ UNCHANGED issued
         \/ /\ keys # <<>>
            /\ rng' = RngAdvance(rng, DrawsOf(op))
            /\ wk' = [wk EXCEPT
                        ![w].pc = "call",
                        ![w].own =
                          RngAdvance(@, DrawsOf(choose_op(mix, RandomPct(@)))),
                        ![w].req =
                          [op |-> op,
                           node |-> RandomChoice(nodes, RngAdvance(rng, 2)),
                           t_start |-> now]]
            /\ issued' = issued + 1
  /\ UNCHANGED <<cfgVars, mainVars, clock_steps, pc, now, stop_at, records, cur, loop_i, wl_idx,
                 conc_idx, run_records, fileVars, built, failed, undecoded>>

\* lines 177-186: the record of one request
PerfRec(req, ok, t_end) ==
  [workload |-> workload_name, concurrency |-> concurrency, node |-> req.node,
   op |-> req.op, ok |-> ok, latency_ms |-> LatencyMs(req.t_start, t_end),
   t_start_ms |-> ToMs(req.t_start), t_end_ms |-> ToMs(t_end)]

\* lines 166-174 (chaos.py 54-64): ok = int(the client call did not raise)
\* a record that reports success whatever the outcome
OkFlagAlwaysOne(outcome) == 1
OkFlag(outcome) == IF Raises(outcome) THEN 0 ELSE 1

\* a worker that is stopped at the deadline in the middle of its request
WReturnPreempted(w) ==
  /\ pc = "join" /\ wk[w].pc = "call"
  /\ IF DeadlineOpen(now)
     THEN \E outcome \in Outcomes(wk[w].req.op) :
            LET rec == PerfRec(wk[w].req, OkFlag(outcome), now)
            IN  /\ run_records' = ListAppend(run_records, rec)
                /\ built' = built (+) SetToBag({rec})
                /\ failed' = failed + (IF Raises(outcome) THEN 1 ELSE 0)
                /\ undecoded' =
                     undecoded + (IF outcome = "decode_error" THEN 1 ELSE 0)
                /\ wk' = [wk EXCEPT ![w].pc = "check", ![w].req = NoReq]
     ELSE /\ wk' = [wk EXCEPT ![w] = [IdleWorker EXCEPT !.pc = "done"]]
          /\ UNCHANGED <<run_records, built, failed, undecoded>>
  /\ UNCHANGED <<cfgVars, mainVars, clock_steps, rng, pc, now, stop_at, records, cur, loop_i, wl_idx,
                 conc_idx, fileVars, issued>>
\* lines 166-187: the call returns or raises, the end time is read, rec is built
\* and appended; the locals are private to the worker and list.append is
\* atomic, so the step acts on shared state once
WReturn(w) ==
  /\ pc = "join" /\ wk[w].pc = "call"
  /\ \E outcome \in Outcomes(wk[w].req.op) :
       LET rec == PerfRec(wk[w].req, OkFlag(outcome), now)
       IN  /\ run_records' = ListAppend(run_records, rec)
           /\ built' = built (+) SetToBag({rec})
           /\ failed' = failed + (IF Raises(outcome) THEN 1 ELSE 0)
           /\ undecoded' = undecoded + (IF outcome = "decode_error" THEN 1 ELSE 0)
  /\ wk' = [wk EXCEPT ![w].pc = "check", ![w].req = NoReq]
  /\ UNCHANGED <<cfgVars, mainVars, clock_steps, rng, pc, now, stop_at, records, cur, loop_i, wl_idx,
                 conc_idx, fileVars, issued>>

\* lines 189-193: leaving the ThreadPoolExecutor block waits for every worker
\* (a worker that raised counts as finished; its exception is never inspected)
\* a join that waits for the first worker only
JoinedFirstOnly(n) == wk[1].pc \in {"done", "raised"}
Joined(n) == \A w \in 1..n : wk[w].pc \in {"done", "raised"}

\* a run that returns while workers are still running
RunReturnEarly ==
  /\ exp = "perf" /\ pc = "join"
  /\ records' = records \o run_records
  /\ pc' = "summarize"
  /\ UNCHANGED <<cfgVars, mainVars, clock_steps, rng, now, stop_at, cur, loop_i, perfVars, fileVars,
                 histVars>>
\* line 195 and run_perf_ycsb line 91: return records; records.extend(run_records)
RunReturn ==
  /\ exp = "perf" /\ pc = "join" /\ Joined(concurrency)
  /\ records' = records \o run_records
  /\ pc' = "summarize"
  /\ UNCHANGED <<cfgVars, mainVars, clock_steps, rng, now, stop_at, cur, loop_i, perfVars, fileVars,
                 histVars>>

\* lines 94-113: the summary line of the run, then the next run
PerfSummarize ==
  /\ exp = "perf" /\ pc = "summarize"
  /\ txt' = WriteLine(txt, RunSummary(workload_name, concurrency, run_records))
  /\ IF conc_idx < Len(concurrency_levels)
     THEN conc_idx' = conc_idx + 1 /\ wl_idx' = wl_idx /\ pc' = "run"
     ELSE IF wl_idx < Len(workloads)
          THEN conc_idx' = 1 /\ wl_idx' = wl_idx + 1 /\ pc' = "run"
          ELSE conc_idx' = conc_idx /\ wl_idx' = wl_idx /\ pc' = "write_csv"
  /\ UNCHANGED <<cfgVars, mainVars, clock_steps, rng, now, stop_at, records, cur, loop_i, run_records, wk,
                 csv, plot, histVars>>

\* lines 116-133: write the CSV table and return
PerfWriteCsv ==
  /\ exp = "perf" /\ pc = "write_csv"
  /\ csv' = [exists |-> TRUE, rows |-> MapList(records, PerfRow)]
  /\ pc' = "returned"
  /\ UNCHANGED <<cfgVars, mainVars, clock_steps, rng, now, stop_at, records, cur, loop_i, perfVars, txt,
                 plot, histVars>>

\* all_plots.py _plot_perf (lines 44-114) on the perf CSV of the finished run
PlotPerf ==
  /\ exp = "perf" /\ pc = "returned" /\ csv.exists /\ ~plot.done
  /\ plot' = [done |-> TRUE, data_tp |-> PlotThroughput(csv.rows),
              data_lat |-> PlotLatency(csv.rows)]
  /\ UNCHANGED <<cfgVars, mainVars, clock_steps, rng, pc, now, stop_at, records, cur, loop_i, perfVars,
                 txt, csv, histVars>>

PerfNext ==
  \/ PerfOpen \/ PerfWarmupPut \/ PerfWarmupDone
  \/ RunStart
  \/ \E w \in Workers : WSeed(w) \/ WCheck(w) \/ WDraw(w) \/ WReturn(w)
  \/ RunReturn \/ PerfSummarize \/ PerfWriteCsv \/ PlotPerf

(* ------------------------ chaos.py: run_chaos -------------------------- *)
\* keys = [f"chaos-{i}" ...] and keys = [f"sac-{i}" ...]: fixed, non-empty
\* universes, cut to MaxKeys keys
FixedKeys == [k \in 1..Max2(1, MaxKeys) |-> k - 1]

\* lines 38-45: set the deadline, open the text file, write the header
ChaosOpen ==
  /\ exp = "chaos" /\ pc = "start"
  /\ stop_at' = now + chaos_duration_sec
  /\ txt' = WriteLine(txt, [kind |-> "header"])
  /\ pc' = "loop"
  /\ UNCHANGED <<cfgVars, mainVars, clock_steps, rng, now, records, cur, loop_i, perfVars, csv, plot,
                 histVars>>

\* line 47: while time.time() < stop_at
ChaosCheck ==
  /\ exp = "chaos" /\ pc = "loop"
  /\ IF DeadlineOpen(now)
     THEN issued < MaxReq /\ pc' = "draw"
     ELSE pc' = "write_csv"
  /\ UNCHANGED <<cfgVars, mainVars, clock_steps, rng, now, stop_at, records, cur, loop_i, perfVars,
                 fileVars, histVars>>

\* lines 48-54: draw key, node and op, read the start time; random.choice of
\* an empty node_names raises IndexError, which leaves run_chaos
ChaosDraw ==
  /\ exp = "chaos" /\ pc = "draw"
  /\ IF nodes = <<>>
     THEN /\ rng' = RngStep(rng)
          /\ pc' = "raised"
          /\ UNCHANGED <<cur, issued>>
     ELSE /\ cur' = [op |-> IF RandomPct(RngAdvance(rng, 2)) < 70
                            THEN "GET" ELSE "PUT",
                     node |-> RandomChoice(nodes, RngStep(rng)),
                     key |-> RandomChoice(FixedKeys, rng), t_start |-> now]
          /\ rng' = RngAdvance(rng, 3)
          /\ issued' = issued + 1
          /\ pc' = "call"
  /\ UNCHANGED <<cfgVars, mainVars, clock_steps, now, stop_at, records, loop_i, perfVars, fileVars,
                 built, failed, undecoded>>

\* lines 68-77: the record of one request
ChaosRec(req, ok, t_end) ==
  [node |-> req.node, op |-> req.op, ok |-> ok,
   latency_ms |-> LatencyMs(req.t_start, t_end),
   t_start_ms |-> ToMs(req.t_start), t_end_ms |-> ToMs(t_end)]

\* a loop that counts its failures without logging them
ChaosReturnSilent ==
  /\ exp = "chaos" /\ pc = "call"
  /\ \E outcome \in Outcomes(cur.op) :
       LET rec == ChaosRec(cur, OkFlag(outcome), now)
       IN  /\ records' = ListAppend(records, rec)
           /\ built' = built (+) SetToBag({rec})
           /\ failed' = failed + (IF Raises(outcome) THEN 1 ELSE 0)
           /\ undecoded' = undecoded + (IF outcome = "decode_error" THEN 1 ELSE 0)
  /\ cur' = NoReq
  /\ pc' = "loop"
  /\ UNCHANGED <<cfgVars, mainVars, clock_steps, rng, now, stop_at, loop_i, perfVars, fileVars, issued>>
\* lines 56-77: the call returns or raises; a raise writes one ERROR line; the
\* end time is read and the record appended
ChaosReturn ==
  /\ exp = "chaos" /\ pc = "call"
  /\ \E outcome \in Outcomes(cur.op) :
       LET rec == ChaosRec(cur, OkFlag(outcome), now)
       IN  /\ txt' = IF Raises(outcome)
                     THEN WriteLine(txt, [kind |-> "ERROR", op |-> cur.op,
                                          node |-> cur.node, key |-> cur.key,
                                          error |-> outcome])
                     ELSE txt
           /\ records' = ListAppend(records, rec)
           /\ built' = built (+) SetToBag({rec})
           /\ failed' = failed + (IF Raises(outcome) THEN 1 ELSE 0)
           /\ undecoded' = undecoded + (IF outcome = "decode_error" THEN 1 ELSE 0)
  /\ cur' = NoReq
  /\ pc' = "loop"
  /\ UNCHANGED <<cfgVars, mainVars, clock_steps, rng, now, stop_at, loop_i, perfVars, csv, plot, issued>>

\* the rows of the chaos table
ChaosRow(r) ==
  [node |-> r.node, op |-> r.op, ok |-> Str(r.ok),
   latency_ms |-> StrFloat(r.latency_ms),
   t_start_ms |-> Str(r.t_start_ms), t_end_ms |-> Str(r.t_end_ms)]

\* lines 79-87: write the CSV table and return
ChaosWriteCsv ==
  /\ exp = "chaos" /\ pc = "write_csv"
  /\ csv' = [exists |-> TRUE, rows |-> MapList(records, ChaosRow)]
  /\ pc' = "returned"
  /\ UNCHANGED <<cfgVars, mainVars, clock_steps, rng, now, stop_at, records, cur, loop_i, perfVars, txt,
                 plot, histVars>>

ChaosNext ==
  ChaosOpen \/ ChaosCheck \/ ChaosDraw \/ ChaosReturn \/ ChaosWriteCsv

(* -------------------------- sac.py: run_sac ---------------------------- *)
SacPopulateMax == 2000

\* lines 53-55: one initial put via the primary; an error of the put leaves
\* run_sac
SacPopulatePut ==
  /\ exp = "sac" /\ pc = "start" /\ nodes # <<>>
  /\ loop_i < Min2(SacPopulateMax, Len(FixedKeys))
  /\ \E outcome \in PutOutcomes :
       IF Raises(outcome) THEN pc' = "raised" /\ loop_i' = loop_i
       ELSE pc' = pc /\ loop_i' = loop_i + 1
  /\ UNCHANGED <<cfgVars, mainVars, clock_steps, rng, now, stop_at, records, cur, perfVars, fileVars,
                 histVars>>

\* lines 57-74: set the deadline, open the text file, write the header
SacOpen ==
  /\ exp = "sac" /\ pc = "start" /\ nodes # <<>>
  /\ loop_i >= Min2(SacPopulateMax, Len(FixedKeys))
  /\ stop_at' = now + sac_duration_sec
  /\ txt' = WriteLine(txt, [kind |-> "header"])
  /\ pc' = "loop"
  /\ UNCHANGED <<cfgVars, mainVars, clock_steps, rng, now, records, cur, loop_i, perfVars, csv, plot,
                 histVars>>

\* line 76: while time.time() < stop_at
SacCheck ==
  /\ exp = "sac" /\ pc = "loop"
  /\ IF DeadlineOpen(now)
     THEN issued < MaxReq /\ pc' = "draw"
     ELSE pc' = "summarize"
  /\ UNCHANGED <<cfgVars, mainVars, clock_steps, rng, now, stop_at, records, cur, loop_i, perfVars,
                 fileVars, histVars>>

\* a choice that pairs the tight class with the relaxed deadline
choose_deadline_swapped(x) ==
  IF x < 50 THEN <<"tight", relaxed_deadline_ms>>
  ELSE <<"relaxed", tight_deadline_ms>>
\* choose_deadline(), lines 65-69, for the drawn x
choose_deadline(x) ==
  IF x < 50 THEN <<"tight", tight_deadline_ms>>
  ELSE <<"relaxed", relaxed_deadline_ms>>

\* lines 77-85: draw key and node, choose class and deadline, build the
\* header, read the start time
SacDraw ==
  /\ exp = "sac" /\ pc = "draw"
  /\ LET cd == choose_deadline(RandomPct(RngAdvance(rng, 2)))
     IN  cur' = [op |-> "GET", node |-> RandomChoice(nodes, RngStep(rng)),
                 t_start |-> now,
                 class |-> cd[1], deadline |-> cd[2],
                 header |-> Str(cd[2])]
  /\ rng' = RngAdvance(rng, 3)
  /\ issued' = issued + 1
  /\ pc' = "call"
  /\ UNCHANGED <<cfgVars, mainVars, clock_steps, now, stop_at, records, loop_i, perfVars, fileVars,
                 built, failed, undecoded>>

\* what the raw httpx get of line 87 can do: return a response with a status,
\* or raise a transport error
SacOutcomes == {"200", "404", "http_error", "transport_error"}
\* lines 85-90: ok = resp.status_code in (200, 404), False when the get raised
SacOk(outcome) == IF outcome \in {"200", "404"} THEN 1 ELSE 0

\* a record whose ok flag is cleared when the latency exceeds the deadline
SacRecEnforcing(req, ok, t_end) ==
  [node |-> req.node, class |-> req.class, deadline_ms |-> req.deadline,
   latency_ms |-> LatencyMs(req.t_start, t_end),
   ok |-> IF LatencyMs(req.t_start, t_end) > req.deadline * TicksPerMs
          THEN 0 ELSE ok,
   t_start_ms |-> ToMs(req.t_start), t_end_ms |-> ToMs(t_end)]
\* lines 93-101: the record of one request
SacRec(req, ok, t_end) ==
  [node |-> req.node, class |-> req.class, deadline_ms |-> req.deadline,
   latency_ms |-> LatencyMs(req.t_start, t_end), ok |-> ok,
   t_start_ms |-> ToMs(req.t_start), t_end_ms |-> ToMs(t_end)]

\* lines 86-102: the get returns or raises, the end time is read, the record
\* is appended
SacReturn ==
  /\ exp = "sac" /\ pc = "call"
  /\ \E outcome \in SacOutcomes :
       LET rec == SacRec(cur, SacOk(outcome), now)
       IN  /\ records' = ListAppend(records, rec)
           /\ built' = built (+) SetToBag({rec})
           /\ failed' = failed + (1 - SacOk(outcome))
  /\ cur' = NoReq
  /\ pc' = "loop"
  /\ UNCHANGED <<cfgVars, mainVars, clock_steps, rng, now, stop_at, loop_i, perfVars, fileVars, issued,
                 undecoded>>

\* lines 105-116: the summary line of one class
ClassSummary(cls, recs) ==
  LET lat == SuccessLatencies(SelectSeq(recs, LAMBDA r : r.class = cls))
      lat_sorted == Sorted(lat)
  IN  IF lat = <<>> THEN [kind |-> "nodata", class |-> cls]
      ELSE [kind |-> "stats", class |-> cls, latencies |-> lat,
            n |-> Len(lat),
            p50 |-> SummaryP50(lat_sorted),
            p95 |-> SummaryP95(lat_sorted),
            p99 |-> SummaryP99(lat_sorted)]

\* lines 104-116: the quick summary, one line per class
SacSummarize ==
  /\ exp = "sac" /\ pc = "summarize"
  /\ txt' = WriteLine(WriteLine(txt, ClassSummary("tight", records)),
                      ClassSummary("relaxed", records))
  /\ pc' = "write_csv"
  /\ UNCHANGED <<cfgVars, mainVars, clock_steps, rng, now, stop_at, records, cur, loop_i, perfVars, csv,
                 plot, histVars>>

\* the rows of the SLO table
SacRow(r) ==
  [node |-> r.node, class |-> r.class, deadline_ms |-> Str(r.deadline_ms),
   latency_ms |-> StrFloat(r.latency_ms), ok |-> Str(r.ok),
   t_start_ms |-> Str(r.t_start_ms), t_end_ms |-> Str(r.t_end_ms)]

\* lines 118-137: write the CSV table, close the raw clients, return
SacWriteCsv ==
  /\ exp = "sac" /\ pc = "write_csv"
  /\ csv' = [exists |-> TRUE, rows |-> MapList(records, SacRow)]
  /\ pc' = "returned"
  /\ UNCHANGED <<cfgVars, mainVars, clock_steps, rng, now, stop_at, records, cur, loop_i, perfVars, txt,
                 plot, histVars>>

SacNext ==
  SacPopulatePut \/ SacOpen \/ SacCheck \/ SacDraw \/ SacReturn
  \/ SacSummarize \/ SacWriteCsv

(* --------------------- staleness.py: run_staleness --------------------- *)
\* a value the store may return that is not the payload just written
OtherValue == <<-1, -1>>
\* what clients[read_node].get(key) can do: raise, or return a KvReadResult
\* (client.py 71-104): 404, found=false and a missing valueBase64 give
\* found=False, value=None; a found value is the payload just written, a
\* payload of an earlier trial, or something else; the raise with found=TRUE
\* is the RuntimeError of a found value that does not decode
StaleReads(expected, written) ==
  {[raises |-> TRUE, found |-> FALSE, value |-> OtherValue],
   [raises |-> TRUE, found |-> TRUE, value |-> OtherValue],
   [raises |-> FALSE, found |-> FALSE, value |-> OtherValue]}
  \cup {[raises |-> FALSE, found |-> TRUE, value |-> v] :
          v \in {expected, OtherValue} \cup {written[k] : k \in 1..Len(written)}}

\* a classification that looks at found only
IsStaleFoundOnly(found, value, expected) == IF found THEN 0 ELSE 1
\* lines 63-67: the classification of one read
IsStale(found, value, expected) ==
  IF found /\ value = expected THEN 0 ELSE 1

\* the locals of run_staleness; written is the history of the payloads put
StaleLocals(d, t, sc, tot) ==
  [d_idx |-> d, trial |-> t, stale_count |-> sc, total |-> tot,
   expected_value |-> OtherValue, wake |-> 0,
   r |-> [found |-> FALSE, value |-> OtherValue], written |-> <<>>]

\* lines 45-52: open the text file, write the header, enter the first delay
StaleOpen ==
  /\ exp = "staleness" /\ pc = "start" /\ nodes # <<>>
  /\ txt' = WriteLine(txt, [kind |-> "header"])
  /\ cur' = StaleLocals(1, 0, 0, 0)
  /\ pc' = IF Len(delays_ms) = 0 THEN "write_csv" ELSE "trial"
  /\ UNCHANGED <<cfgVars, mainVars, clock_steps, rng, now, stop_at, records, loop_i, perfVars, csv, plot,
                 histVars>>

\* lines 54-56: total += 1, build the payload from the delay and time_ns(),
\* put it via the primary; an error of the put leaves run_staleness
StalePut ==
  /\ exp = "staleness" /\ pc = "trial" /\ cur.trial < trials_per_delay
  /\ \E outcome \in PutOutcomes :
       /\ cur' = [cur EXCEPT !.total = @ + 1,
                             !.expected_value = <<delays_ms[cur.d_idx], now>>,
                             !.written = Append(@, <<delays_ms[cur.d_idx], now>>),
                             !.wake = now + delays_ms[cur.d_idx]]
       /\ pc' = IF Raises(outcome) THEN "raised" ELSE "sleep"
       /\ failed' = failed + (IF Raises(outcome) THEN 1 ELSE 0)
  /\ issued' = issued + 1
  /\ UNCHANGED <<cfgVars, mainVars, clock_steps, rng, now, stop_at, records, loop_i, perfVars, fileVars,
                 built, undecoded>>

\* a sleep that returns at once
StaleSleepNoWait ==
  /\ exp = "staleness" /\ pc = "sleep"
  /\ pc' = "read"
  /\ UNCHANGED <<cfgVars, mainVars, clock_steps, rng, now, stop_at, records, cur, loop_i,
                 perfVars, fileVars, histVars>>
\* line 58: time.sleep(d / 1000.0) returns once the delay has passed
StaleSleep ==
  /\ exp = "staleness" /\ pc = "sleep" /\ now >= cur.wake
  /\ pc' = "read"
  /\ UNCHANGED <<cfgVars, mainVars, clock_steps, rng, now, stop_at, records, cur, loop_i, perfVars,
                 fileVars, histVars>>

\* lines 60-78: read from a random node, classify, count, append the record;
\* an error of the get leaves run_staleness
StaleRead ==
  /\ exp = "staleness" /\ pc = "read"
  /\ \E r \in StaleReads(cur.expected_value, cur.written) :
       IF r.raises
       THEN /\ pc' = "raised"
            /\ failed' = failed + 1
            /\ undecoded' = undecoded + (IF r.found THEN 1 ELSE 0)
            /\ UNCHANGED <<cur, records, built>>
       ELSE LET is_stale == IsStale(r.found, r.value, cur.expected_value)
                rec == [delay_ms |-> delays_ms[cur.d_idx],
                        read_node |-> RandomChoice(nodes, rng),
                        is_stale |-> is_stale]
            IN  /\ cur' = [cur EXCEPT !.stale_count = @ + is_stale,
                                      !.trial = @ + 1,
                                      !.r = [found |-> r.found,
                                                   value |-> r.value],
                                      !.wake = 0]
                /\ records' = ListAppend(records, rec)
                /\ built' = built (+) SetToBag({rec})
                /\ failed' = failed
                /\ undecoded' = undecoded
                /\ pc' = "trial"
  /\ rng' = RngStep(rng)
  /\ issued' = issued + 1
  /\ UNCHANGED <<cfgVars, mainVars, clock_steps, now, stop_at, loop_i, perfVars, fileVars>>

\* a summary that carries the stale count over to the next delay
StaleDelayDoneNoReset ==
  /\ exp = "staleness" /\ pc = "trial" /\ cur.trial >= trials_per_delay
  /\ txt' = WriteLine(txt, [kind |-> "delay", delay_ms |-> delays_ms[cur.d_idx],
                            stale |-> cur.stale_count,
                            total |-> Max2(cur.total, 1)])
  /\ IF cur.d_idx < Len(delays_ms)
     THEN /\ cur' = [cur EXCEPT !.d_idx = @ + 1, !.trial = 0, !.total = 0]
          /\ pc' = "trial"
     ELSE cur' = cur /\ pc' = "write_csv"
  /\ UNCHANGED <<cfgVars, mainVars, clock_steps, rng, now, stop_at, records, loop_i, perfVars, csv, plot,
                 histVars>>
\* lines 80-81: the summary line of the delay, then the next delay
StaleDelayDone ==
  /\ exp = "staleness" /\ pc = "trial" /\ cur.trial >= trials_per_delay
  /\ txt' = WriteLine(txt, [kind |-> "delay", delay_ms |-> delays_ms[cur.d_idx],
                            stale |-> cur.stale_count,
                            total |-> Max2(cur.total, 1)])
  /\ IF cur.d_idx < Len(delays_ms)
     THEN /\ cur' = [cur EXCEPT !.d_idx = @ + 1, !.trial = 0,
                                 !.stale_count = 0, !.total = 0]
          /\ pc' = "trial"
     ELSE cur' = cur /\ pc' = "write_csv"
  /\ UNCHANGED <<cfgVars, mainVars, clock_steps, rng, now, stop_at, records, loop_i, perfVars, csv, plot,
                 histVars>>

\* the rows of the staleness table
StaleRow(r) ==
  [delay_ms |-> Str(r.delay_ms), read_node |-> r.read_node,
   is_stale |-> Str(r.is_stale)]

\* lines 83-91: write the CSV table and return
StaleWriteCsv ==
  /\ exp = "staleness" /\ pc = "write_csv"
  /\ csv' = [exists |-> TRUE, rows |-> MapList(records, StaleRow)]
  /\ pc' = "returned"
  /\ UNCHANGED <<cfgVars, mainVars, clock_steps, rng, now, stop_at, records, cur, loop_i, perfVars, txt,
                 plot, histVars>>

StaleNext ==
  StaleOpen \/ StalePut \/ StaleSleep \/ StaleRead \/ StaleDelayDone
  \/ StaleWriteCsv

(* ------------------ anti_entropy.py: run_anti_entropy ------------------ *)
\* root hashes a node may report; a snapshot without rootHashBase64 gives ""
Digests == {"h1", "h2", ""}

\* the locals of run_anti_entropy; burst is the history of the puts of the
\* write burst that returned
AeLocals(start, off) == [start_time |-> start, t_offset |-> off,
                         roots |-> <<>>, wake |-> 0, burst |-> <<>>]

\* lines 38-46: open the text file, write the header
AeOpen ==
  /\ exp = "anti-entropy" /\ pc = "start" /\ nodes # <<>>
  /\ txt' = WriteLine(txt, [kind |-> "header"])
  /\ loop_i' = 0
  /\ cur' = AeLocals(0, 0)
  /\ pc' = "burst"
  /\ UNCHANGED <<cfgVars, mainVars, clock_steps, rng, now, stop_at, records, perfVars, csv,
                 plot, histVars>>

\* lines 47-50: one put of the write burst via the primary; an error of the
\* put leaves run_anti_entropy
AeBurstPut ==
  /\ exp = "anti-entropy" /\ pc = "burst" /\ loop_i < write_burst_keys
  /\ \E outcome \in PutOutcomes :
       IF Raises(outcome)
       THEN pc' = "raised" /\ loop_i' = loop_i /\ cur' = cur
       ELSE /\ pc' = pc /\ loop_i' = loop_i + 1
            /\ cur' = [cur EXCEPT !.burst =
                         Append(@, [key |-> loop_i, node |-> primary,
                                    coord_node_id |-> primary])]
  /\ UNCHANGED <<cfgVars, mainVars, clock_steps, rng, now, stop_at, records, perfVars,
                 fileVars, histVars>>

\* an observation that starts before the write burst is over
AeBurstDoneEarly ==
  /\ exp = "anti-entropy" /\ pc = "burst"
  /\ txt' = WriteLine(txt, [kind |-> "burst_done"])
  /\ cur' = [AeLocals(now, 0) EXCEPT !.burst = cur.burst]
  /\ stop_at' = now + observation_seconds
  /\ pc' = "loop"
  /\ UNCHANGED <<cfgVars, mainVars, clock_steps, rng, now, records, loop_i, perfVars, csv,
                 plot, histVars>>
\* lines 51-56: the burst is over; start_time and end_time are set
AeBurstDone ==
  /\ exp = "anti-entropy" /\ pc = "burst" /\ loop_i >= write_burst_keys
  /\ txt' = WriteLine(txt, [kind |-> "burst_done"])
  /\ cur' = [AeLocals(now, 0) EXCEPT !.burst = cur.burst]
  /\ stop_at' = now + observation_seconds
  /\ pc' = "loop"
  /\ UNCHANGED <<cfgVars, mainVars, clock_steps, rng, now, records, loop_i, perfVars, csv,
                 plot, histVars>>

\* line 58: while time.time() < end_time
AeCheck ==
  /\ exp = "anti-entropy" /\ pc = "loop"
  /\ IF DeadlineOpen(now)
     THEN issued < MaxReq /\ pc' = "stamp"
     ELSE pc' = "write_csv"
  /\ UNCHANGED <<cfgVars, mainVars, clock_steps, rng, now, stop_at, records, cur, loop_i, perfVars,
                 fileVars, histVars>>

\* lines 59-63: t_offset = time.time() - start_time; roots = {}
AeStamp ==
  /\ exp = "anti-entropy" /\ pc = "stamp"
  /\ cur' = [cur EXCEPT !.t_offset = now - cur.start_time, !.roots = <<>>]
  /\ issued' = issued + 1
  /\ pc' = "fetch"
  /\ UNCHANGED <<cfgVars, mainVars, clock_steps, rng, now, stop_at, records, loop_i, perfVars, fileVars,
                 built, failed, undecoded>>

\* lines 64-68: the snapshot of the next node; an error of the fetch leaves
\* run_anti_entropy
AeFetch ==
  /\ exp = "anti-entropy" /\ pc = "fetch" /\ Len(cur.roots) < Len(nodes)
  /\ \/ pc' = "raised" /\ cur' = cur /\ failed' = failed + 1
     \/ /\ \E h \in Digests : cur' = [cur EXCEPT !.roots = Append(@, h)]
        /\ pc' = pc /\ failed' = failed
  /\ UNCHANGED <<cfgVars, mainVars, clock_steps, rng, now, stop_at, records, loop_i, perfVars, fileVars,
                 issued, built, undecoded>>

\* index pairs whose inner loop starts at i instead of i + 1
RECURSIVE PairsWithSelf(_, _, _)
PairsWithSelf(a, b, n) ==
  IF a > n THEN <<>>
  ELSE IF b > n THEN PairsWithSelf(a + 1, a + 1, n)
       ELSE <<<<a, b>>>> \o PairsWithSelf(a, b + 1, n)
\* lines 71-72: the index pairs (i, j), i < j, in the order of the two loops
RECURSIVE PairsFrom(_, _, _)
PairsFrom(a, b, n) ==
  IF a >= n THEN <<>>
  ELSE IF b > n THEN PairsFrom(a + 1, a + 2, n)
       ELSE <<<<a, b>>>> \o PairsFrom(a, b + 1, n)

\* a comparison that reports every pair in sync
InSyncAlways(root_a, root_b) == 1
\* line 75: in_sync = int(roots[n1] == roots[n2])
InSync(root_a, root_b) == IF root_a = root_b THEN 1 ELSE 0

\* lines 71-85: one sample per pair of node_names
PairSamples(names, roots, t_offset) ==
  MapList(PairsFrom(1, 2, Len(names)),
          LAMBDA p : [t_offset_s |-> t_offset,
                      node_a |-> names[p[1]], node_b |-> names[p[2]],
                      root_a |-> roots[p[1]], root_b |-> roots[p[2]],
                      in_sync |-> InSync(roots[p[1]], roots[p[2]])])

\* lines 70-87: append the samples of the iteration, then sleep
AePairs ==
  /\ exp = "anti-entropy" /\ pc = "fetch" /\ Len(cur.roots) = Len(nodes)
  /\ LET samples == PairSamples(nodes, cur.roots, cur.t_offset)
     IN  /\ records' = records \o samples
         /\ built' = built (+) BagOfSeq(samples)
  /\ cur' = [cur EXCEPT !.roots = <<>>, !.t_offset = 0,
                        !.wake = now + sample_interval_seconds]
  /\ pc' = "sleep"
  /\ UNCHANGED <<cfgVars, mainVars, clock_steps, rng, now, stop_at, loop_i, perfVars, fileVars, issued,
                 failed, undecoded>>

\* line 87: time.sleep(sample_interval_seconds) returns
AeSleep ==
  /\ exp = "anti-entropy" /\ pc = "sleep" /\ now >= cur.wake
  /\ cur' = [cur EXCEPT !.wake = 0]
  /\ pc' = "loop"
  /\ UNCHANGED <<cfgVars, mainVars, clock_steps, rng, now, stop_at, records, loop_i, perfVars, fileVars,
                 histVars>>

\* the rows of the convergence table
AeRow(r) ==
  [t_offset_s |-> StrFloat(r.t_offset_s), node_a |-> r.node_a,
   node_b |-> r.node_b, root_a |-> r.root_a, root_b |-> r.root_b,
   in_sync |-> Str(r.in_sync)]

\* lines 89-104: write the CSV table and return
AeWriteCsv ==
  /\ exp = "anti-entropy" /\ pc = "write_csv"
  /\ csv' = [exists |-> TRUE, rows |-> MapList(records, AeRow)]
  /\ pc' = "returned"
  /\ UNCHANGED <<cfgVars, mainVars, clock_steps, rng, now, stop_at, records, cur, loop_i, perfVars, txt,
                 plot, histVars>>

AeNext ==
  AeOpen \/ AeBurstPut \/ AeBurstDone \/ AeCheck \/ AeStamp \/ AeFetch
  \/ AePairs \/ AeSleep \/ AeWriteCsv

(* ----------------------------- the harness ----------------------------- *)
Next ==
  Tick \/ MainUnknown \/ PrimaryOfEmptyCluster
  \/ PerfNext \/ ChaosNext \/ SacNext \/ StaleNext \/ AeNext

Spec == Init /\ [][Next]_vars


(* ------------- the aggregator on arbitrary record lists ---------------- *)
\* latencies in whole milliseconds the lists below draw from
LatencyChoices == {10, 20, 30, 40, 50}
Ms(x) == x * TicksPerMs

\* all lists of 1..n elements of S
RECURSIVE ListsUpTo(_, _)
ListsUpTo(S, n) ==
  IF n = 0 THEN {<<>>}
  ELSE LET shorter == ListsUpTo(S, n - 1)
       IN  shorter \cup {Append(l, x) : l \in {m \in shorter : Len(m) = n - 1},
                                        x \in S}

\* one request of the last run of run_perf_ycsb that started at tick t0, took
\* lat ticks and ended with ok
AggPerfRec(t0, lat, ok) ==
  [workload |-> workloads[Len(workloads)].name,
   concurrency |-> concurrency_levels[Len(concurrency_levels)],
   node |-> DEFAULT_CLUSTER[1], op |-> "GET", ok |-> ok,
   latency_ms |-> lat, t_start_ms |-> ToMs(t0), t_end_ms |-> ToMs(t0 + lat)]
\* one request of run_sac
AggSacRec(t0, lat, ok, cls) ==
  [node |-> DEFAULT_CLUSTER[1], class |-> cls,
   deadline_ms |-> IF cls = "tight" THEN tight_deadline_ms
                   ELSE relaxed_deadline_ms,
   latency_ms |-> lat, ok |-> ok,
   t_start_ms |-> ToMs(t0), t_end_ms |-> ToMs(t0 + lat)]

\* the records a list may hold: successes of every latency, one failure
AggPerfChoices ==
  {AggPerfRec(MaxTime, Ms(l), 1) : l \in LatencyChoices}
    \cup {AggPerfRec(MaxTime, Ms(10), 0)}
AggSacChoices ==
  {AggSacRec(MaxTime, Ms(l), 1, "tight") : l \in LatencyChoices}
    \cup {AggSacRec(MaxTime, Ms(10), 0, "tight"),
          AggSacRec(MaxTime, Ms(20), 1, "relaxed")}

\* the text file of run_perf_ycsb when the last run returns and no earlier run
\* produced a record
AggPerfTxt ==
  LET runs == [k \in 1..(Len(workloads) * Len(concurrency_levels)) |->
                 [w |-> workloads[((k - 1) \div Len(concurrency_levels)) + 1].name,
                  c |-> concurrency_levels[((k - 1) % Len(concurrency_levels)) + 1]]]
      LinesOf(k) ==
        IF k < Len(runs)
        THEN << [kind |-> "running", workload |-> runs[k].w, concurrency |-> runs[k].c],
                [kind |-> "nodata", workload |-> runs[k].w, concurrency |-> runs[k].c] >>
        ELSE << [kind |-> "running", workload |-> runs[k].w, concurrency |-> runs[k].c] >>
      Cat[k \in 0..Len(runs)] == IF k = 0 THEN <<>> ELSE Cat[k - 1] \o LinesOf(k)
  IN  [exists |-> TRUE,
       rows |-> << [kind |-> "header"], [kind |-> "warmup_done"] >> \o Cat[Len(runs)]]

\* run_perf_ycsb where the last run has just returned its records, or run_sac
\* where the request loop has just ended, for every list of up to MaxLen records
InitAgg ==
  /\ exp \in {"perf", "sac"}
  /\ num_keys = MaxKeys
  /\ nodes = SubSeq(DEFAULT_CLUSTER, 1, 1)
  /\ pc = "summarize"
  /\ now = MaxTime + Ms(50) /\ stop_at = MaxTime + 1
  /\ clock_steps = 0
  /\ rng = RngModulus - 1
  /\ cur = NoReq
  /\ loop_i = Min2(IF exp = "perf" THEN WarmupMax ELSE SacPopulateMax, MaxKeys)
  /\ wl_idx = IF exp = "perf" THEN Len(workloads) ELSE 1
  /\ conc_idx = IF exp = "perf" THEN Len(concurrency_levels) ELSE 1
  /\ records \in ListsUpTo(IF exp = "perf" THEN AggPerfChoices
                           ELSE AggSacChoices, MaxLen) \ {<<>>}
  /\ run_records = IF exp = "perf" THEN records ELSE <<>>
  /\ wk = [w \in Workers |->
             IF exp = "perf" /\ w <= concurrency_levels[Len(concurrency_levels)]
             THEN [IdleWorker EXCEPT !.pc = "done"] ELSE IdleWorker]
  /\ txt = IF exp = "perf" THEN AggPerfTxt
           ELSE [exists |-> TRUE, rows |-> << [kind |-> "header"] >>]
  /\ csv = NoFile /\ plot = NoPlot
  /\ issued = Len(records)
  /\ built = BagOfSeq(records)
  /\ failed = Len(SelectSeq(records, LAMBDA r : r.ok = 0))
  /\ undecoded = 0
  /\ MainInProbe(exp)

NextAgg ==
  PerfSummarize \/ PerfWriteCsv \/ PlotPerf \/ SacSummarize \/ SacWriteCsv

SpecAgg == InitAgg /\ [][NextAgg]_vars

(* ------------- the request loops on a wall clock set back -------------- *)
\* run_chaos and run_sac from their start; run_perf_ycsb in its last run, when
\* no earlier run produced a record, the deadline was set at tick 0 and every
\* worker has seeded the generator (worker 1 first) and polls the deadline
InitWallClock ==
  /\ exp \in {"perf", "chaos", "sac"}
  /\ num_keys = MaxKeys
  /\ nodes \in ClusterChoices(exp)
  /\ now = 0 /\ clock_steps = 0
  /\ stop_at = IF exp = "perf" THEN run_seconds ELSE 0
  /\ rng \in (IF exp = "perf" THEN {RngModulus - 1} ELSE RngSeeds)
  /\ records = <<>> /\ run_records = <<>>
  /\ wk = [w \in Workers |->
             IF exp = "perf" /\ w <= concurrency_levels[Len(concurrency_levels)]
             THEN [IdleWorker EXCEPT !.pc = "check",
                                     !.run = <<Len(workloads),
                                               Len(concurrency_levels)>>,
                                     !.own = IF w = 1 THEN RngModulus \div 2
                                            ELSE RngModulus - 1]
             ELSE IdleWorker]
  /\ cur = NoReq
  /\ csv = NoFile /\ plot = NoPlot
  /\ issued = 0 /\ built = EmptyBag /\ failed = 0 /\ undecoded = 0
  /\ pc = IF exp = "perf" THEN "join" ELSE "start"
  /\ wl_idx = IF exp = "perf" THEN Len(workloads) ELSE 1
  /\ conc_idx = IF exp = "perf" THEN Len(concurrency_levels) ELSE 1
  /\ loop_i = IF exp = "perf" THEN Min2(WarmupMax, MaxKeys) ELSE 0
  /\ txt = IF exp = "perf" THEN AggPerfTxt ELSE NoFile
  /\ MainInProbe(exp)

\* the three request loops, with a system clock that is set back up to
\* MaxSetBacks times
NextWallClock ==
  \/ Tick \/ ClockSetBack
  \/ \E w \in Workers : WCheck(w) \/ WDraw(w) \/ WReturn(w)
  \/ RunReturn \/ PerfSummarize \/ PerfWriteCsv
  \/ ChaosNext \/ SacNext

SpecWallClock == InitWallClock /\ [][NextWallClock]_vars

(* ------------------ run_sac with requests that stall ------------------- *)
\* line 87: the get blocks until the node answers or the 5 s timeout of the
\* raw client (line 46) expires, so a request in flight can outlast the
\* deadline it declared
Stall ==
  /\ exp = "sac" /\ pc = "call" /\ now <= MaxTime
  /\ \E d \in {tight_deadline_ms, relaxed_deadline_ms} : now' = now + Ms(d) + 1
  /\ UNCHANGED <<cfgVars, mainVars, clock_steps, rng, pc, stop_at, records, cur, loop_i,
                 perfVars, fileVars, histVars>>

InitSlo ==
  /\ exp = "sac"
  /\ pc = "start"
  /\ num_keys = MaxKeys
  /\ nodes \in ClusterChoices(exp)
  /\ InitCommon
  /\ MainInProbe(exp)

NextSlo == Tick \/ Stall \/ SacNext

SpecSlo == InitSlo /\ [][NextSlo]_vars

(* ------- one call of _run_single_workload under fair scheduling -------- *)
\* _run_single_workload for the first workload and concurrency level, after
\* it has set the deadline and submitted the workers (perf_ycsb.py 150-153 and
\* 189-191), at a time from which the clock of the model can pass the deadline
InitDeadline ==
  /\ exp = "perf" /\ pc = "join"
  /\ num_keys \in {0, MaxKeys}
  /\ nodes \in ClusterChoices(exp)
  /\ now \in 0..(MaxTime - run_seconds) /\ clock_steps = 0
  /\ rng = RngModulus - 1
  /\ wl_idx = 1 /\ conc_idx = 1
  /\ stop_at = now + run_seconds
  /\ records = <<>> /\ run_records = <<>>
  /\ wk = [w \in Workers |->
             IF w <= concurrency
             THEN [IdleWorker EXCEPT !.pc = "seed", !.run = <<wl_idx, conc_idx>>]
             ELSE IdleWorker]
  /\ cur = NoReq /\ loop_i = Min2(WarmupMax, num_keys)
  /\ txt = WriteLine(WriteLine(WriteLine(NoFile, [kind |-> "header"]),
                               [kind |-> "warmup_done"]),
                     [kind |-> "running", workload |-> workload_name,
                      concurrency |-> concurrency])
  /\ csv = NoFile /\ plot = NoPlot
  /\ issued = 0 /\ built = EmptyBag /\ failed = 0 /\ undecoded = 0
  /\ MainInProbe(exp)

\* the steps of the call, up to its return
NextDeadline ==
  \/ Tick
  \/ \E w \in Workers : WSeed(w) \/ WCheck(w) \/ WDraw(w) \/ WReturn(w)
  \/ RunReturn

\* the clock keeps advancing; every thread of the pool (max_workers =
\* concurrency, lines 189-191) and the main thread keep being scheduled; every
\* client call returns or raises (requests timeout of the client)
FairDeadline ==
  /\ WF_vars(Tick) /\ WF_vars(RunReturn)
  /\ \A w \in Workers :
       /\ WF_vars(WSeed(w)) /\ WF_vars(WCheck(w))
       /\ WF_vars(WDraw(w)) /\ WF_vars(WReturn(w))

SpecDeadline == InitDeadline /\ [][NextDeadline]_vars /\ FairDeadline

(* --------------------------- runner.py: main --------------------------- *)
\* runner.py 121-139: the calls main makes for the selector all, in order
AllOrder ==
  <<"sanity", "functional", "perf", "sac", "chaos", "staleness",
    "anti-entropy", "plot">>
\* runner.py 97-119: the function main calls for a selector other than all
ProbeOf(sel) ==
  IF sel = "sanity-smoke" THEN "sanity"
  ELSE IF sel = "perf-ycsb" THEN "perf"
  ELSE IF sel = "anti_entropy" THEN "anti-entropy"
  ELSE sel
\* the calls of the branch main takes for the selector
Plan(sel) ==
  IF sel = "all" THEN AllOrder
  ELSE IF sel \in KnownSelectors THEN <<ProbeOf(sel)>>
  ELSE <<>>

\* how a call of main can end: every probe but the plots reads the primary
\* (runner.py 37, functional.py 27, perf_ycsb.py 47, sac.py 41, staleness.py
\* 34, anti_entropy.py 33) or draws a node (chaos.py 49) and raises for a
\* cluster without nodes; otherwise the call returns, or an error of a
\* request or of a file leaves it
ProbeResults(p) ==
  IF nodes = <<>> /\ p # "plot" THEN {"raised"} ELSE {"returned", "raised"}

\* main calls the next function of its branch; pc = "in_probe" while the call
\* runs
MainCall ==
  /\ main_pc = "try" /\ pc = "start"
  /\ Len(calls) < Len(Plan(exp))
  /\ calls' = Append(calls, [probe |-> Plan(exp)[Len(calls) + 1],
                             result |-> "running"])
  /\ pc' = "in_probe"
  /\ UNCHANGED <<cfgVars, clients, main_pc, close_i, clock_steps, rng, now, stop_at,
                 records, cur, loop_i, perfVars, fileVars, histVars>>

\* the call returns or raises: an exception leaves the try block, a return
\* goes on to the next call of the branch or to the end of the try block
MainProbeEnd ==
  /\ main_pc = "try" /\ pc = "in_probe"
  /\ \E res \in ProbeResults(calls[Len(calls)].probe) :
       /\ calls' = [calls EXCEPT ![Len(calls)].result = res]
       /\ pc' = IF res = "raised" THEN "raised"
                ELSE IF Len(calls) < Len(Plan(exp)) THEN "start"
                ELSE "returned"
  /\ UNCHANGED <<cfgVars, clients, main_pc, close_i, clock_steps, rng, now, stop_at,
                 records, cur, loop_i, perfVars, fileVars, histVars>>

\* the try block is over: by the end of the branch, by an exception or by
\* sys.exit(1)
TryOver == pc \in {"returned", "raised", "usage_error"}

\* runner.py 144-146: the finally block closes the next client of the dict
MainCloseClient ==
  /\ TryOver /\ main_pc \in {"try", "finally"}
  /\ close_i < Len(nodes)
  /\ clients' = [clients EXCEPT ![nodes[close_i + 1]] = "closed"]
  /\ close_i' = close_i + 1
  /\ main_pc' = "finally"
  /\ UNCHANGED <<cfgVars, calls, clock_steps, rng, pc, now, stop_at, records, cur,
                 loop_i, perfVars, fileVars, histVars>>

\* a main that closes its clients after the try block, without finally
MainExitNoFinally ==
  /\ TryOver /\ main_pc \in {"try", "finally"}
  /\ (pc = "returned") => (close_i >= Len(nodes))
  /\ main_pc' = "exited"
  /\ UNCHANGED <<cfgVars, clients, calls, close_i, clock_steps, rng, pc, now, stop_at,
                 records, cur, loop_i, perfVars, fileVars, histVars>>
\* runner.py 144-146: the loop of the finally block is over, main ends (with
\* the exception or the exit status of the try block, if any)
MainExit ==
  /\ TryOver /\ main_pc \in {"try", "finally"}
  /\ close_i >= Len(nodes)
  /\ main_pc' = "exited"
  /\ UNCHANGED <<cfgVars, clients, calls, close_i, clock_steps, rng, pc, now, stop_at,
                 records, cur, loop_i, perfVars, fileVars, histVars>>

\* main after parse_args and build_cluster_clients (runner.py 91-93), for
\* every selector main knows and one it does not, and clusters of 0 to 3 nodes
InitMain ==
  /\ exp \in KnownSelectors \cup {"no-such-experiment"}
  /\ pc = "start"
  /\ num_keys = MaxKeys
  /\ nodes \in {SubSeq(DEFAULT_CLUSTER, 1, k) : k \in 0..Len(DEFAULT_CLUSTER)}
  /\ InitCommon
  /\ MainAtDispatch

NextMain ==
  MainCall \/ MainProbeEnd \/ MainUnknown \/ MainCloseClient \/ MainExit

SpecMain == InitMain /\ [][NextMain]_vars

(* ============================ properties ================================ *)
\* the list the running request loop appends to
LoopRecords == IF exp = "perf" THEN run_records ELSE records
\* every record collected so far by the probe
AllRecords == IF exp = "perf" /\ pc = "join" THEN records \o run_records
              ELSE records
\* requests issued and not yet returned
InFlight ==
  IF exp = "perf" THEN Cardinality({w \in Workers : wk[w].pc = "call"})
  ELSE IF pc = "call" THEN 1 ELSE 0
CountOkZero(recs) == Len(SelectSeq(recs, LAMBDA r : r.ok = 0))

\* C1: in the mixed-workload driver, at every point of every interleaving the
\* shared list holds exactly the records the workers built, each once (none
\* lost, duplicated or altered), and every issued request is either still in
\* flight or has exactly one record; so the returned list has one record per
\* request attempted.
C1_AppendsKeepEveryRecord ==
  exp = "perf" =>
    /\ BagOfSeq(AllRecords) = built
    /\ Len(AllRecords) + InFlight = issued
\* a record is in the shared list while one worker's request is in flight and
\* another worker is in the middle of its iteration
C1_Witness ==
  /\ exp = "perf" /\ pc = "join"
  /\ Len(run_records) >= 1
  /\ \E w, v \in Workers : w # v /\ wk[w].pc = "call" /\ wk[v].pc = "draw"

\* C2 (as stated): every request a worker has issued was started at a time
\* strictly earlier than stop_at.
C2_StartedBeforeDeadline ==
  \A w \in Workers : wk[w].pc = "call" => wk[w].req.t_start < stop_at
\* C2 (amended): a worker issues a request only after a deadline check that
\* read a time strictly earlier than stop_at, and only from that check.
C2_CheckedBeforeIssue ==
  [][\A w \in Workers :
       ((wk[w].pc = "check" /\ wk'[w].pc = "draw") => now < stop_at)
       /\ ((wk[w].pc # "call" /\ wk'[w].pc = "call") => wk[w].pc = "draw")
       /\ ((wk[w].pc # "draw" /\ wk'[w].pc = "draw") => wk[w].pc = "check")
    ]_vars
\* a request whose start time was read at or after the deadline is in flight
C2_Witness ==
  \E w \in Workers : wk[w].pc = "call" /\ wk[w].req.t_start >= stop_at

\* C3: outside the ThreadPoolExecutor block of _run_single_workload no worker
\* is running: when the run has returned and run_perf_ycsb extends, summarizes
\* or writes the records, every launched worker has terminated.
C3_ReturnAfterWorkersDone ==
  exp = "perf" =>
    /\ pc # "join" =>
         \A w \in Workers : wk[w].pc \in {"idle", "done", "raised"}
    /\ pc = "summarize" =>
         \A w \in 1..concurrency : wk[w].pc \in {"done", "raised"}
\* a run of two workers has returned a record
C3_Witness ==
  /\ exp = "perf" /\ pc = "summarize"
  /\ concurrency = 2 /\ Len(run_records) >= 1

\* C4: in the mixed-workload driver, the chaos probe and the SLO probe a
\* failing request appends exactly one record, with ok = 0, the records with
\* ok = 0 are as many as the failed requests, and the loop is back at its
\* deadline check with the request's locals dropped (no retry, no abort).
C4_FailureRecordedLoopContinues ==
  [][(exp \in {"perf", "chaos", "sac"}) =>
       ((CountOkZero(AllRecords') = failed')
        /\ ((failed' = failed + 1) =>
              ((Len(LoopRecords') = Len(LoopRecords) + 1)
               /\ (SubSeq(LoopRecords', 1, Len(LoopRecords)) = LoopRecords)
               /\ (LoopRecords'[Len(LoopRecords')].ok = 0)
               /\ (IF exp = "perf"
                   THEN (pc' = "join")
                        /\ (\E w \in Workers :
                              (wk[w].pc = "call") /\ (wk'[w].pc = "check")
                              /\ (wk'[w].req = NoReq))
                   ELSE (pc' = "loop") /\ (cur' = NoReq)))))
    ]_vars
\* after a failed request of the loop, the loop has issued another request
C4_Witness ==
  /\ exp \in {"perf", "chaos", "sac"}
  /\ InFlight >= 1
  /\ \E k \in 1..Len(LoopRecords) : LoopRecords[k].ok = 0

\* C5: in the staleness probe and in the observation loop of the convergence
\* probe, a failed request never aborts the probe.
C5_LoopSurvivesRequestFailure ==
  (exp \in {"staleness", "anti-entropy"} /\ failed > 0) => pc # "raised"

\* C6: when a probe has ended, every record it collected is in its table.
C6_EndWritesAllRecords ==
  (pc \in {"returned", "raised"} /\ records # <<>>) =>
    (csv.exists /\ Len(csv.rows) = Len(records))

\* C7: with an empty key universe the run never returns normally.
C7_EmptyKeyUniverseIsFatal ==
  (exp = "perf" /\ keys = <<>>) => pc \notin {"summarize", "write_csv", "returned"}

\* the percentile fields of a summary line or plot entry over its latencies
PercentilesMonotoneInRange(e, lats) ==
  /\ e.p50 <= e.p95 /\ e.p95 <= e.p99
  /\ \A v \in {e.p50, e.p95, e.p99} : SeqMin(lats) <= v /\ v <= SeqMax(lats)
StatsLines == {txt.rows[k] : k \in {j \in 1..Len(txt.rows) : txt.rows[j].kind = "stats"}}

\* C8: every reported percentile triple satisfies p50 <= p95 <= p99 and lies
\* between the smallest and the largest latency of its list, in the workload
\* summary, the SLO class summary and the plot aggregation.
C8_PercentilesOrderedInRange ==
  /\ \A l \in StatsLines : PercentilesMonotoneInRange(l, l.latencies)
  /\ \A e \in plot.data_lat : PercentilesMonotoneInRange(e, e.lats)

\* the element at index clamp(floor(f * n) - 1, 0, n - 1) of the sorted list
RulePercentile(lats, pct) ==
  LET n == Len(lats)
  IN  Sorted(lats)[Max2(0, Min2(n - 1, FloorFrac(pct, n) - 1)) + 1]
FollowsIndexRule(e, lats) ==
  /\ e.p50 = RulePercentile(lats, 50)
  /\ e.p95 = RulePercentile(lats, 95)
  /\ e.p99 = RulePercentile(lats, 99)

\* C9: every reported percentile is the element at index
\* clamp(floor(f * n) - 1, 0, n - 1) of the sorted latencies, in the workload
\* summary, the SLO class summary and the plot aggregation.
C9_PercentileIndexRule ==
  /\ \A l \in StatsLines : FollowsIndexRule(l, l.latencies)
  /\ \A e \in plot.data_lat : FollowsIndexRule(e, e.lats)

\* the records of one (workload, concurrency) run
RunRecords(w, c) ==
  SelectSeq(records, LAMBDA r : r.workload = w /\ r.concurrency = c)

\* C10: the latencies behind the percentiles of a run are exactly those of its
\* records with ok = 1, and the throughput numerator is the number of all its
\* records, in the text summary and in the plot aggregation.
C10_LatenciesOkOnlyThroughputAll ==
  exp = "perf" =>
    /\ \A l \in StatsLines :
         /\ l.latencies = SuccessLatencies(RunRecords(l.workload, l.concurrency))
         /\ l.ops = Len(RunRecords(l.workload, l.concurrency))
    /\ \A e \in plot.data_lat :
         e.lats = SuccessLatencies(RunRecords(e.workload, e.concurrency))
    /\ \A e \in plot.data_tp :
         e.ops = Len(RunRecords(e.workload, e.concurrency))

\* no record of the list has ok = 1
NoOk(recs) == \A k \in 1..Len(recs) : recs[k].ok # 1
LastLine(file) == file.rows[Len(file.rows)]
LastRun == conc_idx = Len(concurrency_levels) /\ wl_idx = Len(workloads)
ClassRecords(cls) == SelectSeq(records, LAMBDA r : r.class = cls)

\* C11: when run_perf_ycsb summarizes a run, or run_sac a class, the line it
\* writes is the no-data line exactly when the run (class) has no record with
\* ok = 1, a line with percentiles always rests on a non-empty latency list,
\* and the probe goes on: to the next run (to the CSV after the last one), to
\* the relaxed class after the tight one.
C11_NoDataInsteadOfPercentiles ==
  [][(pc = "summarize" /\ pc' # "summarize") =>
       (IF exp = "perf"
        THEN ((LastLine(txt').kind = "nodata") <=> NoOk(run_records))
             /\ ((LastLine(txt').kind = "stats") <=> ~NoOk(run_records))
             /\ ((LastLine(txt').kind = "stats") =>
                   (Len(LastLine(txt').latencies) >= 1))
             /\ (Len(txt'.rows) = Len(txt.rows) + 1)
             /\ (pc' = (IF LastRun THEN "write_csv" ELSE "run"))
        ELSE (Len(txt'.rows) = Len(txt.rows) + 2)
             /\ (pc' = "write_csv")
             /\ (\A c \in 1..2 :
                   (txt'.rows[Len(txt.rows) + c].class = <<"tight", "relaxed">>[c])
                   /\ ((txt'.rows[Len(txt.rows) + c].kind = "nodata")
                         <=> NoOk(ClassRecords(<<"tight", "relaxed">>[c])))
                   /\ ((txt'.rows[Len(txt.rows) + c].kind = "stats")
                         <=> ~NoOk(ClassRecords(<<"tight", "relaxed">>[c])))
                   /\ ((txt'.rows[Len(txt.rows) + c].kind = "stats") =>
                         (Len(txt'.rows[Len(txt.rows) + c].latencies) >= 1))))
    ]_vars
\* a run whose records all failed got the no-data line and the next run has
\* started
C11_Witness ==
  /\ exp = "perf"
  /\ \E k \in 1..(Len(txt.rows) - 1) :
       /\ txt.rows[k].kind = "nodata"
       /\ txt.rows[k + 1].kind = "running"
       /\ RunRecords(txt.rows[k].workload, txt.rows[k].concurrency) # <<>>
       /\ NoOk(RunRecords(txt.rows[k].workload, txt.rows[k].concurrency))

\* C12: every run that returned at least one record gets a summary line with
\* a throughput, computed from a positive record count over a positive span.
C12_ThroughputForEveryRecordSet ==
  (exp = "perf" /\ pc \in {"run", "write_csv"} /\ txt.exists
     /\ LastLine(txt).kind \in {"nodata", "stats"}
     /\ RunRecords(LastLine(txt).workload, LastLine(txt).concurrency) # <<>>)
  => /\ LastLine(txt).kind = "stats"
     /\ LastLine(txt).ops > 0
     /\ LastLine(txt).span_us > 0

Abs(x) == IF x >= 0 THEN x ELSE -x
\* the records of the three request loops
TimedRecords ==
  IF exp \in {"perf", "chaos", "sac"} THEN AllRecords ELSE <<>>
\* latency_ms (in ticks) is less than 1 ms away from t_end_ms - t_start_ms
LatencyNearSpan(r) ==
  Abs(r.latency_ms - (r.t_end_ms - r.t_start_ms) * TicksPerMs) < TicksPerMs

LastRecord(recs) == recs[Len(recs)]

\* C14: in the staleness probe the record of a trial has is_stale = 0 exactly
\* when the read reported found = true and returned the payload written in
\* that trial; a not-found read and a read of any other value give 1.
C14_StaleUnlessExactMatch ==
  [][(exp = "staleness" /\ Len(records') = Len(records) + 1) =>
       ((LastRecord(records').is_stale \in {0, 1})
        /\ (cur'.expected_value = cur.expected_value)
        /\ (cur.expected_value = LastRecord(cur.written))
        /\ ((LastRecord(records').is_stale = 0)
              <=> (cur'.r.found /\ (cur'.r.value = cur.expected_value))))
    ]_vars
\* a trial read the payload it wrote and a later trial found another value
C14_Witness ==
  /\ exp = "staleness" /\ pc = "trial" /\ Len(records) >= 2
  /\ \E k \in 1..(Len(records) - 1) : records[k].is_stale = 0
  /\ LastRecord(records).is_stale = 1
  /\ cur.r.found /\ cur.r.value # cur.expected_value

\* C15: in the staleness probe the read of a trial is issued only when the
\* sleep that followed the trial's write has lasted the configured delay, the
\* sleep starts only when the write has returned, and a write is issued only
\* when every earlier write of the delay has had its read.
C15_WriteSleepRead ==
  [][(exp = "staleness" /\ pc # "start") =>
       (((pc' = "read" /\ pc # "read") =>
            (pc = "sleep" /\ now >= cur.wake
             /\ Len(cur.written) = Len(records) + 1))
        /\ ((pc' = "sleep" /\ pc # "sleep") =>
              (pc = "trial" /\ cur'.total = cur.total + 1
               /\ cur'.wake = now + delays_ms[cur.d_idx]))
        /\ ((Len(cur'.written) # Len(cur.written)) =>
              (pc = "trial" /\ cur.total = cur.trial
               /\ Len(cur.written) = Len(records)
               /\ Len(cur'.written) = Len(cur.written) + 1))
        /\ ((Len(records') # Len(records)) => (pc = "read")))
    ]_vars
\* the read of a trial with a positive delay has returned
C15_Witness ==
  /\ exp = "staleness" /\ pc = "trial"
  /\ records # <<>> /\ LastRecord(records).delay_ms > 0
  /\ Len(cur.written) = Len(records)

Distinct(lst) == \A a, b \in 1..Len(lst) : a # b => lst[a] # lst[b]

\* C16: in the staleness probe the payloads written in the trials of a run
\* are pairwise distinct.
C16_FreshPayloadEveryTrial ==
  (exp = "staleness" /\ nodes # <<>> /\ pc # "start") => Distinct(cur.written)

\* the samples appended by the step
NewSamples == SubSeq(records', Len(records) + 1, Len(records'))
IndexOf(names, name) == CHOOSE i \in 1..Len(names) : names[i] = name

\* C17: an iteration of the observation loop of run_anti_entropy over k nodes
\* appends k * (k - 1) / 2 samples: one for each unordered pair of distinct
\* nodes, none of a node with itself, no pair twice; their digests are those of
\* the dict roots, which was emptied at the start of the iteration and then
\* filled with one snapshot per node.
C17_OneSamplePerPair ==
  [][(exp = "anti-entropy") =>
       (((pc' = "fetch" /\ pc # "fetch") => (cur'.roots = <<>>))
        /\ ((Len(records') # Len(records) \/ (pc = "fetch" /\ pc' = "sleep")) =>
              ((pc = "fetch")
               /\ (Len(cur.roots) = Len(nodes))
               /\ (SubSeq(records', 1, Len(records)) = records)
               /\ (2 * Len(NewSamples) = Len(nodes) * (Len(nodes) - 1))
               /\ (\A i \in 1..Len(NewSamples) :
                     (NewSamples[i].node_a # NewSamples[i].node_b)
                     /\ (\E a, b \in 1..Len(nodes) :
                           (NewSamples[i].node_a = nodes[a])
                           /\ (NewSamples[i].node_b = nodes[b]))
                     /\ (NewSamples[i].t_offset_s = cur.t_offset)
                     /\ (NewSamples[i].root_a =
                           cur.roots[IndexOf(nodes, NewSamples[i].node_a)])
                     /\ (NewSamples[i].root_b =
                           cur.roots[IndexOf(nodes, NewSamples[i].node_b)]))
               /\ (\A i, j \in 1..Len(NewSamples) :
                     (i # j) =>
                       ({NewSamples[i].node_a, NewSamples[i].node_b}
                          # {NewSamples[j].node_a, NewSamples[j].node_b}))
               /\ (\A a, b \in 1..Len(nodes) :
                     (a < b) =>
                       (\E i \in 1..Len(NewSamples) :
                          {NewSamples[i].node_a, NewSamples[i].node_b}
                            = {nodes[a], nodes[b]})))))
    ]_vars
\* two iterations over three nodes have emitted their three samples each
C17_Witness ==
  /\ exp = "anti-entropy" /\ Len(nodes) = 3
  /\ Len(records) = 6
  /\ records[4].t_offset_s # records[3].t_offset_s

\* C18: every convergence sample has in_sync = 1 when its two digests are
\* equal and in_sync = 0 when they differ.
C18_InSyncIffDigestsEqual ==
  exp = "anti-entropy" =>
    \A k \in 1..Len(records) :
      /\ records[k].in_sync \in {0, 1}
      /\ (records[k].in_sync = 1) <=> (records[k].root_a = records[k].root_b)
\* an iteration over three nodes that all returned the same digest, and a
\* sample of two different digests
C18_Witness ==
  /\ exp = "anti-entropy" /\ Len(nodes) = 3 /\ Len(records) >= 4
  /\ \A k \in 1..3 : records[k].in_sync = 1
  /\ \E k \in 4..Len(records) : records[k].in_sync = 0

\* C19: in run_anti_entropy every put is a put of the write burst, to a key
\* no earlier put used, sent to the primary with the primary as coordinator,
\* and made before the first iteration of the observation loop; every
\* snapshot is fetched when all write_burst_keys puts have returned.
C19_BurstBeforeObservation ==
  [][(exp = "anti-entropy" /\ pc # "start") =>
       (((cur'.burst # cur.burst) =>
            ((pc = "burst") /\ (issued = 0) /\ (records = <<>>)
             /\ (Len(cur'.burst) = Len(cur.burst) + 1)
             /\ (SubSeq(cur'.burst, 1, Len(cur.burst)) = cur.burst)
             /\ (LastRecord(cur'.burst).node = nodes[1])
             /\ (LastRecord(cur'.burst).coord_node_id = nodes[1])
             /\ (\A k \in 1..Len(cur.burst) :
                   cur.burst[k].key # LastRecord(cur'.burst).key)))
        /\ ((pc' \in {"stamp", "fetch"}) =>
              (Len(cur'.burst) = write_burst_keys))
        /\ ((Len(cur'.roots) > Len(cur.roots)) =>
              ((Len(cur.burst) = write_burst_keys)
               /\ (cur'.burst = cur.burst))))
    ]_vars
\* the burst is complete and a snapshot of the observation has been fetched
C19_Witness ==
  /\ exp = "anti-entropy" /\ pc = "fetch"
  /\ Len(cur.roots) >= 1
  /\ Len(cur.burst) = write_burst_keys /\ Len(cur.burst) >= 2

\* the configured deadline of an SLO class
DeadlineOf(cls) ==
  IF cls = "tight" THEN tight_deadline_ms ELSE relaxed_deadline_ms
TaggedRight(cls, deadline) ==
  cls \in {"tight", "relaxed"} /\ deadline = DeadlineOf(cls)

\* C20: in run_sac a request is issued with one class of {tight, relaxed},
\* the configured deadline of that class and a deadline header that reads as
\* that deadline; while the request is in flight its class and deadline do not
\* change; its record carries them, and no record is changed afterwards.
C20_ClassTagFixedAtIssue ==
  [][(exp = "sac") =>
       (((pc' = "call") =>
            (TaggedRight(cur'.class, cur'.deadline)
             /\ (ParseInt(cur'.header) = cur'.deadline)))
        /\ ((pc = "call" /\ pc' = "call") => (cur' = cur))
        /\ ((Len(records') # Len(records)) =>
              ((pc = "call")
               /\ (Len(records') = Len(records) + 1)
               /\ (LastRecord(records').class = cur.class)
               /\ (LastRecord(records').deadline_ms = cur.deadline)))
        /\ (SubSeq(records', 1, Len(records)) = records)
        /\ (\A k \in 1..Len(records') :
              TaggedRight(records'[k].class, records'[k].deadline_ms)))
    ]_vars
\* a tight and a relaxed request have been recorded
C20_Witness ==
  /\ exp = "sac"
  /\ \E k \in 1..Len(records) : records[k].class = "tight"
  /\ \E k \in 1..Len(records) : records[k].class = "relaxed"

\* the latency of a record is above its declared deadline
OverDeadline(r) == r.latency_ms > r.deadline_ms * TicksPerMs

\* C21: run_sac does not enforce the deadline: the record of a request has
\* latency_ms = t_end - t_start and ok = 1 exactly when the request did not
\* fail (status 200 or 404), whatever class and deadline were drawn and also
\* when the latency is above the declared deadline; the request is recorded
\* in every case.
C21_DeadlineNotEnforced ==
  [][(exp = "sac" /\ pc = "call" /\ pc' # "call") =>
       ((Len(records') = Len(records) + 1)
        /\ (LastRecord(records').latency_ms = now - cur.t_start)
        /\ (LastRecord(records').ok \in {0, 1})
        /\ ((LastRecord(records').ok = 1) <=> (failed' = failed)))
    ]_vars
\* a request that kept its deadline and a relaxed request that outlasted its
\* deadline are both recorded with ok = 1
C21_Witness ==
  /\ exp = "sac" /\ Len(records) = 2
  /\ ~OverDeadline(records[1]) /\ records[1].ok = 1
  /\ OverDeadline(records[2]) /\ records[2].ok = 1
  /\ records[2].class = "relaxed"

\* C22: in the workload driver and the chaos probe the records with ok = 0
\* are as many as the requests that raised a transport or HTTP status error:
\* a read that was answered with a 2xx or a 404 status has a record with
\* ok = 1.
C22_AnsweredReadIsSuccess ==
  exp \in {"perf", "chaos"} =>
    CountOkZero(AllRecords) = failed - undecoded

\* C23: once a read has met a value that does not decode, the probe has
\* ended with that error raised to its caller, and the records collected
\* so far are the ones that were built.
C23_DecodeFailureIsFatal ==
  undecoded > 0 =>
    /\ pc = "raised"
    /\ exp # "perf" => BagOfSeq(records) = built

\* C24: the draws of a worker of the workload driver are those of a generator
\* of its own, seeded with the worker's seed and stepped by the worker's
\* draws only: in every iteration the value drawn for the operation, and the
\* operation and node chosen, are the ones that generator gives, whatever the
\* other workers seeded or drew in between.
C24_OwnSeedDeterminesDraws ==
  [][\A w \in Workers :
       ((wk[w].pc = "draw") /\ (wk'[w].pc = "call")) =>
         ((RandomPct(rng) = RandomPct(wk[w].own))
          /\ (wk'[w].req.op = choose_op(mix, RandomPct(wk[w].own)))
          /\ (wk'[w].req.node =
                RandomChoice(nodes, RngAdvance(wk[w].own, 2))))
    ]_vars

\* C25: the operation of every iteration of the workload driver is GET when
\* the drawn x is below the read probability of the mix and PUT otherwise
\* (also when x equals it); under the read-only mix every request is a GET,
\* and every record has op GET or PUT.
C25_ReadIffBelowReadProbability ==
  [][(exp = "perf") =>
       ((\A w \in Workers :
           ((wk[w].pc = "draw") /\ (wk'[w].pc = "call")) =>
             (((wk'[w].req.op = "GET") <=> (RandomPct(rng) < mix))
              /\ ((wk'[w].req.op = "PUT") <=> (RandomPct(rng) >= mix))
              /\ ((mix = 100) => (wk'[w].req.op = "GET"))))
        /\ (\A k \in 1..Len(AllRecords') :
              (AllRecords'[k].op \in {"GET", "PUT"})
              /\ ((AllRecords'[k].workload = "C") => (AllRecords'[k].op = "GET"))))
    ]_vars
\* a write of the 50/50 mix is recorded and a read of the read-only mix is in
\* flight
C25_Witness ==
  /\ exp = "perf"
  /\ \E k \in 1..Len(AllRecords) :
       AllRecords[k].workload = "A" /\ AllRecords[k].op = "PUT"
  /\ \E w \in Workers :
       workload_name = "C" /\ wk[w].pc = "call" /\ wk[w].req.op = "GET"

NoOutput == ~txt.exists /\ ~csv.exists /\ ~plot.done

\* C26: for a selector main does not know, main ends with the usage error
\* (message on stderr, exit status 1), no probe runs, no request is issued
\* and no output file is created or written.
C26_UnknownSelectorUsageError ==
  exp \notin KnownSelectors =>
    /\ pc \in {"start", "usage_error"}
    /\ issued = 0 /\ records = <<>> /\ built = EmptyBag
    /\ NoOutput
\* main has ended on an unknown selector
C26_Witness ==
  exp \notin KnownSelectors /\ pc = "usage_error"

\* C27: with a cluster without nodes no probe issues a request or creates an
\* output file, for every selector.
C27_EmptyClusterFatalAtStartup ==
  nodes = <<>> => (issued = 0 /\ NoOutput)

\* the summary lines of the staleness probe, in the order written
DelayLines == SelectSeq(txt.rows, LAMBDA l : l.kind = "delay")
\* the positions in records of the trials of the d-th configured delay
TrialsOf(d) == ((d - 1) * trials_per_delay + 1) .. (d * trials_per_delay)
StaleIn(d) == Cardinality({i \in TrialsOf(d) : records[i].is_stale = 1})

\* C28: when no request raised, the staleness probe has trials_per_delay
\* records for every configured delay, grouped in the configured order and
\* tagged with their delay, and the summary of every delay reports the number
\* of its records with is_stale = 1 over trials_per_delay.
C28_PerDelayCounts ==
  (exp = "staleness" /\ pc \in {"write_csv", "returned"}) =>
    /\ Len(records) = Len(delays_ms) * trials_per_delay
    /\ Len(DelayLines) = Len(delays_ms)
    /\ \A d \in 1..Len(delays_ms) :
         /\ \A i \in TrialsOf(d) : records[i].delay_ms = delays_ms[d]
         /\ DelayLines[d].delay_ms = delays_ms[d]
         /\ DelayLines[d].stale = StaleIn(d)
         /\ DelayLines[d].total = trials_per_delay
         /\ DelayLines[d].stale \in 0..trials_per_delay
\* a finished run in which the delays have different stale counts, one of them
\* strictly between none and all
C28_Witness ==
  /\ exp = "staleness" /\ pc = "returned"
  /\ Len(DelayLines) = Len(delays_ms)
  /\ DelayLines[1].stale = 1 /\ DelayLines[1].stale < trials_per_delay
  /\ DelayLines[2].stale = 0
  /\ csv.exists

\* worker w is in the middle of a request and the deadline has passed
MidRequestAtDeadline(w) == wk[w].pc = "call" /\ ~DeadlineOpen(now)

\* C29: provided every remote call returns and the clock keeps advancing,
\* every worker of the mixed-workload driver eventually terminates and the
\* run eventually returns; a worker that is mid-request when the deadline
\* passes completes that request and records it, then observes the deadline
\* and stops without issuing another request.
C29_DeadlinePollingTerminates ==
  /\ (pc = "join") ~> (pc = "summarize" /\ Joined(concurrency))
  /\ \A w \in Workers :
       /\ (wk[w].pc \in {"seed", "check", "draw", "call"})
            ~> (wk[w].pc \in {"done", "raised"})
       /\ MidRequestAtDeadline(w) ~> (wk[w].pc = "done")
  /\ [][\A w \in Workers :
          ((MidRequestAtDeadline(w) /\ (wk'[w] # wk[w])) =>
             ((wk'[w].pc = "check")
              /\ (Len(run_records') = Len(run_records) + 1)
              /\ (run_records'[Len(run_records')] \in
                    {PerfRec(wk[w].req, ok, now) : ok \in {0, 1}})))
          /\ ((wk[w].pc = "check" /\ ~DeadlineOpen(now) /\ (wk'[w] # wk[w])) =>
                ((wk'[w].pc = "done") /\ (issued' = issued)))
       ]_vars
\* the run has returned with a record of a request that was started before the
\* deadline and ended at or after it
C29_Witness ==
  /\ exp = "perf" /\ pc = "summarize" /\ Joined(concurrency)
  /\ \E i \in 1..Len(records) :
       /\ Ms(records[i].t_start_ms) + TicksPerMs - 1 < stop_at
       /\ Ms(records[i].t_end_ms) >= stop_at

\* the ERROR lines of the text log, in the order written
ErrorLines == SelectSeq(txt.rows, LAMBDA l : l.kind = "ERROR")

\* C30: in the chaos probe a request that fails adds exactly one ERROR line,
\* naming its operation, node and key and the error, and exactly one record
\* with ok = 0; a request that succeeds adds no ERROR line; so the ERROR lines
\* are always as many as the records with ok = 0.
C30_ErrorLinePerFailure ==
  [][(exp = "chaos") =>
       ((Len(ErrorLines') = CountOkZero(records'))
        /\ ((Len(records') = Len(records) + 1) =>
              (IF records'[Len(records')].ok = 0
               THEN (Len(ErrorLines') = Len(ErrorLines) + 1)
                    /\ (txt'.rows[Len(txt'.rows)].kind = "ERROR")
                    /\ (txt'.rows[Len(txt'.rows)].op = cur.op)
                    /\ (txt'.rows[Len(txt'.rows)].node = cur.node)
                    /\ (txt'.rows[Len(txt'.rows)].key = cur.key)
                    /\ (txt'.rows[Len(txt'.rows)].error \in Outcomes(cur.op))
                    /\ Raises(txt'.rows[Len(txt'.rows)].error)
               ELSE txt' = txt))
        /\ ((Len(records') = Len(records)) =>
              (Len(ErrorLines') = Len(ErrorLines))))
    ]_vars
\* a finished chaos run with a failed and a successful request
C30_Witness ==
  /\ exp = "chaos" /\ pc = "returned"
  /\ Len(ErrorLines) = 1
  /\ \E i, j \in 1..Len(records) : records[i].ok = 0 /\ records[j].ok = 1

\* worker w has been submitted and has not ended
Active(w) == wk[w].pc \in {"seed", "check", "draw", "call"}
\* the position of the run a record is tagged with, in the order of the loops
\* of run_perf_ycsb
RunRank(r) ==
  (IndexOf([k \in 1..Len(workloads) |-> workloads[k].name], r.workload) - 1)
    * Len(concurrency_levels)
  + IndexOf(concurrency_levels, r.concurrency)
RunsInOrder(recs) ==
  \A i, j \in 1..Len(recs) : i < j => RunRank(recs[i]) <= RunRank(recs[j])

CallsInOrder ==
  /\ (exp = "all") =>
       LET order == <<"sanity", "functional", "perf", "sac", "chaos",
                      "staleness", "anti-entropy", "plot">>
       IN  /\ Len(calls) <= Len(order)
           /\ \A k \in 1..Len(calls) : calls[k].probe = order[k]
  /\ (exp # "all") => (Len(calls) <= 1)
  /\ \A k \in 1..Len(calls) :
       (k < Len(calls)) => (calls[k].result = "returned")

\* C32: when main has ended, by the end of its branch, by an exception of a
\* probe or by the exit for an unknown selector, every client that was built
\* is closed; under the selector all the probes are called in the order
\* sanity, functional, perf, sac, chaos, staleness, anti-entropy, plots, a
\* probe is called only after every earlier one has returned, none is called
\* after one has raised, and main ends normally only after all of them.
C32_ClientsClosedProbesInOrder ==
  /\ [](main_pc = "exited" =>
          (TryOver /\ (\A i \in 1..Len(nodes) : clients[nodes[i]] = "closed")))
  /\ [](CallsInOrder
        /\ ((exp = "all" /\ pc = "returned") =>
              ((Len(calls) = 8)
               /\ (\A k \in 1..Len(calls) : calls[k].result = "returned")))
        /\ ((pc = "raised") => (calls # <<>>
                                 /\ calls[Len(calls)].result = "raised")))
  /\ [][(Len(calls') > Len(calls)) =>
          ((main_pc = "try") /\ (pc \notin {"raised", "usage_error"})
           /\ (Len(calls') = Len(calls) + 1)
           /\ (\A k \in 1..Len(calls) : calls[k].result = "returned"))
      ]_vars
\* main has ended under the selector all on an exception of the chaos probe,
\* the fifth call, with the three clients closed
C32_Witness ==
  /\ exp = "all" /\ main_pc = "exited" /\ pc = "raised"
  /\ Len(calls) = 5 /\ calls[5].probe = "chaos" /\ calls[5].result = "raised"
  /\ Len(nodes) = 3 /\ \A i \in 1..3 : clients[nodes[i]] = "closed"

====
